---------------------------- MODULE Spec2Model ----------------------------
(***************************************************************************)
(* Model of the tick-to-execution pipeline of the trading bot:             *)
(*   core/risk.py       RiskManager (circuit breaker state machine)        *)
(*   core/inventory.py  InventoryRiskManager (stateless admission gate)    *)
(*   core/position.py   PositionManager (average-price accounting)         *)
(*   core/engine.py     TradingEngine.process_tick / _process_signal       *)
(*                                                                         *)
(* Python floats are modelled as exact rationals [n |-> Int, d |-> Nat],   *)
(* kept in lowest terms; quantities, prices and equity are drawn from      *)
(* small integer sets.  Exceptions are modelled as an "exc" field of the   *)
(* value an operation yields ("none" when it returns normally).            *)
(***************************************************************************)
EXTENDS Integers, Sequences, FiniteSets, TLC

VARIABLES
    limits,        \* RiskLimits of the RiskManager (frozen dataclass)
    risk,          \* RiskManager: _daily_pnl, _open_trades, _circuit_breaker_hit
    rlast,         \* last direct call made on the RiskManager (risk.py unit)
    position,      \* PositionManager: _qty, _avg_price, _realized_pnl
    running,       \* TradingEngine.running
    raise_on_circuit_breaker,   \* TradingEngine.raise_on_circuit_breaker
    tick_count,    \* TradingEngine.tick_count
    trade_count,   \* TradingEngine.trade_count
    last_error,    \* TradingEngine.last_error (None or the kind of message)
    last_equity,   \* TradingEngine.last_equity ({} is None)
    last_tick,     \* TradingEngine.last_tick: its "last" price ({} is None)
    pc,            \* process_tick: "idle" (no call), "signals" (for loop), "done"
    nsignals,      \* len(self.last_signals): the list strategy.on_tick returned
    idx,           \* number of signals of the list whose processing has started
    events,        \* the local list `events` of the call
    flow,          \* how the iteration leaves the loop body: "continue", "break", "raise"
    exit,          \* how the call left: "return", "raise" ("none": still inside)
    calls,         \* calls made to collaborators during the call, in order
    cur,           \* the signal processed by the last loop iteration, its outcome
    plast,         \* last direct on_trade call on the PositionManager (position.py unit)
    signed_sum,    \* signed sum of the sizes of the valid direct on_trade calls
    pcalls,        \* number of direct on_trade calls made
    ilast,         \* last direct validate_inventory call (inventory.py unit)
    bt,            \* the BacktestEngine of each of two replays of one stream
    bstream,       \* how much of the tick stream the replays have consumed
    strategy,      \* a strategy object: its kind, configuration and fields
    stick,         \* the last on_tick call on the strategy and what it returned
    hard,          \* _apply_env_hardening: the call's arguments and its result
    ws,            \* BinanceWebSocketDataFeed: tick queue, reader and consumer
    drv            \* the driver loop of main(): its position, ticks requested

vars == << limits, risk, rlast, position, running, raise_on_circuit_breaker,
           tick_count, trade_count, last_error, last_equity, last_tick, pc,
           nsignals, idx, events, flow, exit, calls, cur,
           plast, signed_sum, pcalls, ilast, bt, bstream, strategy, stick,
           hard, ws, drv >>

\* The variables of the components driven on their own.
posVars == << plast, signed_sum, pcalls >>
invVars == << ilast >>
btVars == << bt, bstream >>
stratVars == << strategy, stick >>
envVars == << hard >>
wsVars == << ws >>
drvVars == << drv >>
unitVars == << posVars, invVars, btVars, stratVars, envVars, wsVars, drvVars >>

engineVars == << position, running, raise_on_circuit_breaker, tick_count,
                 trade_count, last_error, last_equity, last_tick, pc,
                 nsignals, idx, events, flow, exit, calls, cur >>

---------------------------------------------------------------------------
(* Bounds of the model.                                                    *)

MaxTicks == 2          \* process_tick calls that count a tick
MaxSignals == 2        \* longest signal list strategy.on_tick returns
MaxOpenCount == 5      \* open_trades reached by direct RiskManager calls
MaxAbsPnl == 120       \* |daily_pnl| reached by direct RiskManager calls
MaxTrades == 4         \* direct on_trade calls on the PositionManager
MaxBtTicks == 4        \* ticks of the stream a backtest replays
MaxStrategyCalls == 5  \* on_tick calls on a strategy
MaxMessages == 5       \* frames the WebSocket reader is given
QueueMaxSize == 3      \* maxsize of the tick queue (1000 in the feed), scaled
MaxReconnects == 8     \* times run_forever ends in the reader thread

---------------------------------------------------------------------------
(* Float arithmetic, as exact rationals in lowest terms.                   *)

Abs(i) == IF i < 0 THEN -i ELSE i

RECURSIVE GCD(_, _)
GCD(a, b) == IF b = 0 THEN a ELSE GCD(b, a % b)

Norm(n, d) ==
    LET g == GCD(Abs(n), Abs(d))
        s == IF d < 0 THEN -1 ELSE 1
    IN  [n |-> s * (n \div g), d |-> s * (d \div g)]

Q(i) == [n |-> i, d |-> 1]

QAdd(a, b) == Norm(a.n * b.d + b.n * a.d, a.d * b.d)
QSub(a, b) == Norm(a.n * b.d - b.n * a.d, a.d * b.d)
QMul(a, b) == Norm(a.n * b.n, a.d * b.d)
QDiv(a, b) == Norm(a.n * b.d, a.d * b.n)
QAbs(a) == [n |-> Abs(a.n), d |-> a.d]
QLt(a, b) == a.n * b.d < b.n * a.d
QLe(a, b) == a.n * b.d <= b.n * a.d
QGt(a, b) == QLt(b, a)
QGe(a, b) == QLe(b, a)

---------------------------------------------------------------------------
(* core/risk.py                                                            *)

\* RiskManager.__init__
RiskInit == [daily_pnl |-> Q(0), open_trades |-> 0, circuit_breaker_hit |-> FALSE]

\* The limits of tests/test_risk.py (make_default_risk_manager).
TestRiskLimits(enabled) ==
    [max_daily_loss_pct |-> 2, max_daily_loss_value |-> 50,
     max_position_size_pct |-> 10, max_open_trades |-> 3,
     circuit_breaker_enabled |-> enabled]

Ok(r) == [risk |-> r, exc |-> "none", why |-> "none"]
Raise(r, e, w) == [risk |-> r, exc |-> e, why |-> w]

\* raise CircuitBreakerTripped(...) after setting the latch
_trigger_circuit_breaker(r, reason) ==
    Raise([r EXCEPT !.circuit_breaker_hit = TRUE], "CircuitBreakerTripped", reason)

\* Mutant of _check_daily_loss: circuit_breaker_enabled is not looked at.
_check_daily_loss_always(r, lim) ==
    IF QGe(r.daily_pnl, Q(0)) THEN Ok(r)
    ELSE LET loss_abs == QAbs(r.daily_pnl)
         IN  IF QGe(loss_abs, Q(lim.max_daily_loss_value))
             THEN _trigger_circuit_breaker(r, "daily_loss")
             ELSE Ok(r)

\* Mutant of _check_daily_loss: the limit itself does not trip (> for >=).
_check_daily_loss_strict(r, lim) ==
    IF ~lim.circuit_breaker_enabled THEN Ok(r)
    ELSE IF QGe(r.daily_pnl, Q(0)) THEN Ok(r)
    ELSE LET loss_abs == QAbs(r.daily_pnl)
         IN  IF QGt(loss_abs, Q(lim.max_daily_loss_value))
             THEN _trigger_circuit_breaker(r, "daily_loss")
             ELSE Ok(r)

_check_daily_loss(r, lim) ==
    IF ~lim.circuit_breaker_enabled THEN Ok(r)
    ELSE IF QGe(r.daily_pnl, Q(0)) THEN Ok(r)
    ELSE LET loss_abs == QAbs(r.daily_pnl)
         IN  IF QGe(loss_abs, Q(lim.max_daily_loss_value))
             THEN _trigger_circuit_breaker(r, "daily_loss")
             ELSE Ok(r)

\* Mutant of register_trade_pnl: the loss limit is checked before the pnl is
\* added, so the pnl of the trade that trips is not kept.
register_trade_pnl_trip_unrecorded(r, lim, pnl) ==
    IF r.circuit_breaker_hit THEN Ok(r)
    ELSE LET c == _check_daily_loss([r EXCEPT !.daily_pnl = QAdd(@, pnl)], lim)
         IN  IF c.exc = "none" THEN c
             ELSE Raise([c.risk EXCEPT !.daily_pnl = r.daily_pnl], c.exc, c.why)

\* Mutant of register_trade_pnl: the early return of a tripped manager is
\* missing.
register_trade_pnl_no_guard(r, lim, pnl) ==
    _check_daily_loss([r EXCEPT !.daily_pnl = QAdd(@, pnl)], lim)

register_trade_pnl(r, lim, pnl) ==
    IF r.circuit_breaker_hit THEN Ok(r)
    ELSE _check_daily_loss([r EXCEPT !.daily_pnl = QAdd(@, pnl)], lim)

\* Mutant of increment_open_trades: the cap itself is refused (>= for >).
increment_open_trades_off_by_one(r, lim) ==
    IF r.circuit_breaker_hit
    THEN Raise(r, "CircuitBreakerTripped", "active")
    ELSE LET r1 == [r EXCEPT !.open_trades = @ + 1]
         IN  IF r1.open_trades >= lim.max_open_trades
             THEN Raise(r1, "CircuitBreakerTripped", "max_open_trades")
             ELSE Ok(r1)

increment_open_trades(r, lim) ==
    IF r.circuit_breaker_hit
    THEN Raise(r, "CircuitBreakerTripped", "active")
    ELSE LET r1 == [r EXCEPT !.open_trades = @ + 1]
         IN  IF r1.open_trades > lim.max_open_trades
             THEN Raise(r1, "CircuitBreakerTripped", "max_open_trades")
             ELSE Ok(r1)

\* Mutant of decrement_open_trades: re-arms the manager once no trade is open.
decrement_open_trades_rearm(r) ==
    LET n == IF r.open_trades - 1 > 0 THEN r.open_trades - 1 ELSE 0
    IN  Ok([r EXCEPT !.open_trades = n,
                     !.circuit_breaker_hit = IF n = 0 THEN FALSE ELSE @])

decrement_open_trades(r) ==
    Ok([r EXCEPT !.open_trades = IF @ - 1 > 0 THEN @ - 1 ELSE 0])

validate_position_size(r, lim, account_equity, position_notional) ==
    IF r.circuit_breaker_hit
    THEN Raise(r, "CircuitBreakerTripped", "active")
    ELSE IF QLe(account_equity, Q(0))
    THEN Raise(r, "ValueError", "equity")
    ELSE LET pct == QMul(QDiv(position_notional, account_equity), Q(100))
         IN  IF QGt(pct, Q(lim.max_position_size_pct))
             THEN Raise(r, "CircuitBreakerTripped", "position_size")
             ELSE Ok(r)

---------------------------------------------------------------------------
(* core/inventory.py                                                       *)

\* str.upper() on the side strings the model uses
Upper(s) ==
    CASE s = "buy" -> "BUY"
      [] s = "sell" -> "SELL"
      [] s = "hold" -> "HOLD"
      [] OTHER -> s

\* Mutant of validate_inventory: the trade_qty <= 0 check is missing.
validate_inventory_no_qty_check(ilim, current_qty, trade_side, trade_qty, price, account_equity) ==
    IF Upper(trade_side) \notin {"BUY", "SELL"}
    THEN [exc |-> "ValueError", why |-> "trade_side"]
    ELSE IF QLe(account_equity, Q(0))
    THEN [exc |-> "ValueError", why |-> "equity"]
    ELSE LET trade_dir == IF Upper(trade_side) = "BUY" THEN 1 ELSE -1
             new_qty == current_qty + trade_dir * trade_qty
             abs_new_qty == Abs(new_qty)
             notional == QMul(Q(abs_new_qty), price)
             pct_equity == QMul(QDiv(notional, account_equity), Q(100))
         IN  IF abs_new_qty > ilim.max_abs_qty
             THEN [exc |-> "InventoryLimitExceeded", why |-> "abs_qty"]
             ELSE IF QGt(pct_equity, Q(ilim.max_notional_pct))
             THEN [exc |-> "InventoryLimitExceeded", why |-> "notional"]
             ELSE [exc |-> "none", why |-> "none"]

\* Mutant of validate_inventory: the notional is taken on the trade, not on
\* the position the trade would leave.
validate_inventory_trade_notional(ilim, current_qty, trade_side, trade_qty, price, account_equity) ==
    IF trade_qty <= 0 THEN [exc |-> "ValueError", why |-> "trade_qty"]
    ELSE IF Upper(trade_side) \notin {"BUY", "SELL"}
    THEN [exc |-> "ValueError", why |-> "trade_side"]
    ELSE IF QLe(account_equity, Q(0))
    THEN [exc |-> "ValueError", why |-> "equity"]
    ELSE LET trade_dir == IF Upper(trade_side) = "BUY" THEN 1 ELSE -1
             new_qty == current_qty + trade_dir * trade_qty
             abs_new_qty == Abs(new_qty)
             notional == QMul(Q(trade_qty), price)
             pct_equity == QMul(QDiv(notional, account_equity), Q(100))
         IN  IF abs_new_qty > ilim.max_abs_qty
             THEN [exc |-> "InventoryLimitExceeded", why |-> "abs_qty"]
             ELSE IF QGt(pct_equity, Q(ilim.max_notional_pct))
             THEN [exc |-> "InventoryLimitExceeded", why |-> "notional"]
             ELSE [exc |-> "none", why |-> "none"]

\* Yields the exception validate_inventory raises ("none": returns silently).
validate_inventory(ilim, current_qty, trade_side, trade_qty, price, account_equity) ==
    IF trade_qty <= 0 THEN [exc |-> "ValueError", why |-> "trade_qty"]
    ELSE IF Upper(trade_side) \notin {"BUY", "SELL"}
    THEN [exc |-> "ValueError", why |-> "trade_side"]
    ELSE IF QLe(account_equity, Q(0))
    THEN [exc |-> "ValueError", why |-> "equity"]
    ELSE LET trade_dir == IF Upper(trade_side) = "BUY" THEN 1 ELSE -1
             new_qty == current_qty + trade_dir * trade_qty
             abs_new_qty == Abs(new_qty)
             notional == QMul(Q(abs_new_qty), price)
             pct_equity == QMul(QDiv(notional, account_equity), Q(100))
         IN  IF abs_new_qty > ilim.max_abs_qty
             THEN [exc |-> "InventoryLimitExceeded", why |-> "abs_qty"]
             ELSE IF QGt(pct_equity, Q(ilim.max_notional_pct))
             THEN [exc |-> "InventoryLimitExceeded", why |-> "notional"]
             ELSE [exc |-> "none", why |-> "none"]

---------------------------------------------------------------------------
(* core/position.py                                                        *)

\* PositionManager.__init__
PositionInit == [qty |-> 0, avg_price |-> Q(0), realized_pnl |-> Q(0)]

_open_new_position(p, side, qty, price) ==
    LET direction == IF side = "BUY" THEN 1 ELSE -1
    IN  [p EXCEPT !.qty = direction * qty, !.avg_price = price]

\* Mutant of _add_to_position: the average is not weighted by the sizes.
_add_to_position_unweighted(p, qty, price, direction) ==
    LET old_abs_qty == Abs(p.qty)
        new_abs_qty == old_abs_qty + qty
    IN  [p EXCEPT
           !.avg_price = QDiv(QAdd(p.avg_price, price), Q(2)),
           !.qty = direction * new_abs_qty]

_add_to_position(p, qty, price, direction) ==
    LET old_abs_qty == Abs(p.qty)
        new_abs_qty == old_abs_qty + qty
    IN  [p EXCEPT
           !.avg_price = QDiv(QAdd(QMul(p.avg_price, Q(old_abs_qty)),
                                   QMul(price, Q(qty))),
                              Q(new_abs_qty)),
           !.qty = direction * new_abs_qty]

\* Mutant of _close_or_reverse: a full close leaves the old average price.
_close_or_reverse_keeps_avg(p, qty, price, trade_dir) ==
    LET current_dir == IF p.qty > 0 THEN 1 ELSE -1
        abs_pos == Abs(p.qty)
        trade_qty == qty
        close_qty == IF abs_pos < trade_qty THEN abs_pos ELSE trade_qty
        pnl == QMul(QMul(QSub(price, p.avg_price), Q(close_qty)), Q(current_dir))
        p1 == [p EXCEPT !.realized_pnl = QAdd(@, pnl)]
    IN  IF trade_qty = abs_pos
        THEN [p1 EXCEPT !.qty = 0]
        ELSE IF trade_qty < abs_pos
        THEN [p1 EXCEPT !.qty = current_dir * (abs_pos - trade_qty)]
        ELSE [p1 EXCEPT !.qty = trade_dir * (trade_qty - abs_pos),
                        !.avg_price = price]

\* Mutant of _close_or_reverse: the PnL is taken on the whole trade size, not
\* on the part that closes the position.
_close_or_reverse_pnl_on_trade_qty(p, qty, price, trade_dir) ==
    LET current_dir == IF p.qty > 0 THEN 1 ELSE -1
        abs_pos == Abs(p.qty)
        trade_qty == qty
        close_qty == IF abs_pos < trade_qty THEN abs_pos ELSE trade_qty
        pnl == QMul(QMul(QSub(price, p.avg_price), Q(trade_qty)), Q(current_dir))
        p1 == [p EXCEPT !.realized_pnl = QAdd(@, pnl)]
    IN  IF trade_qty = abs_pos
        THEN [p1 EXCEPT !.qty = 0, !.avg_price = Q(0)]
        ELSE IF trade_qty < abs_pos
        THEN [p1 EXCEPT !.qty = current_dir * (abs_pos - trade_qty)]
        ELSE [p1 EXCEPT !.qty = trade_dir * (trade_qty - abs_pos),
                        !.avg_price = price]

\* Mutant of _close_or_reverse: a reversal keeps the closed side's average.
_close_or_reverse_stale_avg(p, qty, price, trade_dir) ==
    LET current_dir == IF p.qty > 0 THEN 1 ELSE -1
        abs_pos == Abs(p.qty)
        trade_qty == qty
        close_qty == IF abs_pos < trade_qty THEN abs_pos ELSE trade_qty
        pnl == QMul(QMul(QSub(price, p.avg_price), Q(close_qty)), Q(current_dir))
        p1 == [p EXCEPT !.realized_pnl = QAdd(@, pnl)]
    IN  IF trade_qty = abs_pos
        THEN [p1 EXCEPT !.qty = 0, !.avg_price = Q(0)]
        ELSE IF trade_qty < abs_pos
        THEN [p1 EXCEPT !.qty = current_dir * (abs_pos - trade_qty)]
        ELSE [p1 EXCEPT !.qty = trade_dir * (trade_qty - abs_pos)]

_close_or_reverse(p, qty, price, trade_dir) ==
    LET current_dir == IF p.qty > 0 THEN 1 ELSE -1
        abs_pos == Abs(p.qty)
        trade_qty == qty
        close_qty == IF abs_pos < trade_qty THEN abs_pos ELSE trade_qty
        pnl == QMul(QMul(QSub(price, p.avg_price), Q(close_qty)), Q(current_dir))
        p1 == [p EXCEPT !.realized_pnl = QAdd(@, pnl)]
    IN  IF trade_qty = abs_pos
        THEN [p1 EXCEPT !.qty = 0, !.avg_price = Q(0)]
        ELSE IF trade_qty < abs_pos
        THEN [p1 EXCEPT !.qty = current_dir * (abs_pos - trade_qty)]
        ELSE [p1 EXCEPT !.qty = trade_dir * (trade_qty - abs_pos),
                        !.avg_price = price]

\* Mutant of on_trade: the qty <= 0 check is missing.
on_trade_no_qty_check(p, side, qty, price) ==
    IF Upper(side) \notin {"BUY", "SELL"}
    THEN [position |-> p, exc |-> "ValueError"]
    ELSE IF p.qty = 0
    THEN [position |-> _open_new_position(p, Upper(side), qty, price),
          exc |-> "none"]
    ELSE LET current_dir == IF p.qty > 0 THEN 1 ELSE -1
             trade_dir == IF Upper(side) = "BUY" THEN 1 ELSE -1
         IN  IF current_dir = trade_dir
             THEN [position |-> _add_to_position(p, qty, price, trade_dir),
                   exc |-> "none"]
             ELSE [position |-> _close_or_reverse(p, qty, price, trade_dir),
                   exc |-> "none"]

\* Yields the position after the trade and the exception raised, if any.
on_trade(p, side, qty, price) ==
    IF qty <= 0 THEN [position |-> p, exc |-> "ValueError"]
    ELSE IF Upper(side) \notin {"BUY", "SELL"}
    THEN [position |-> p, exc |-> "ValueError"]
    ELSE IF p.qty = 0
    THEN [position |-> _open_new_position(p, Upper(side), qty, price),
          exc |-> "none"]
    ELSE LET current_dir == IF p.qty > 0 THEN 1 ELSE -1
             trade_dir == IF Upper(side) = "BUY" THEN 1 ELSE -1
         IN  IF current_dir = trade_dir
             THEN [position |-> _add_to_position(p, qty, price, trade_dir),
                   exc |-> "none"]
             ELSE [position |-> _close_or_reverse(p, qty, price, trade_dir),
                   exc |-> "none"]

---------------------------------------------------------------------------
(* core/engine.py                                                          *)

\* An Optional value is a set: {} is None, {v} holds v.
Val(o) == CHOOSE v \in o : TRUE

\* Limits of the engine's RiskManager and InventoryRiskManager, chosen so
\* that with the prices, sizes and equity below every check can pass and fail.
EngineRiskLimits(enabled) ==
    [max_daily_loss_pct |-> 2, max_daily_loss_value |-> 10,
     max_position_size_pct |-> 18, max_open_trades |-> 1,
     circuit_breaker_enabled |-> enabled]

InventoryLimits == [max_abs_qty |-> 2, max_notional_pct |-> 18]

\* Inputs of a tick: tick["last"], the signals a strategy may return, the
\* equity the execution client reports and whether send_order succeeds.
LastPrices == {100}
LimitPrices == {90}
Envs == { [equity |-> 1000, order_ok |-> TRUE],
          [equity |-> 0, order_ok |-> TRUE],
          [equity |-> 1000, order_ok |-> FALSE] }

ValidSignals ==
    [side : {"BUY", "SELL"}, size : {1, 2}, order_type : {"MARKET"}, price : {{}}]
    \cup [side : {"BUY", "SELL"}, size : {1, 2}, order_type : {"LIMIT"},
          price : {{p} : p \in LimitPrices}]

InvalidSignals ==
    { [side |-> "BUY", size |-> 1, order_type |-> "LIMIT", price |-> {}],
      [side |-> "SELL", size |-> 0, order_type |-> "MARKET", price |-> {}],
      [side |-> "HOLD", size |-> 1, order_type |-> "MARKET", price |-> {}] }

Signals == ValidSignals \cup InvalidSignals

NoSignal == [side |-> "", size |-> 0, order_type |-> "", price |-> {}]
NoCur == [k |-> 0, signal |-> NoSignal, equity |-> 0, order_ok |-> TRUE,
          exc |-> "", why |-> "", inv |-> ""]

Event(type, k, reason) == [type |-> type, sig |-> k, reason |-> reason]
Call(e, name, k) == [e EXCEPT !.calls = Append(@, <<name, k>>)]

\* What _process_signal leaves behind: the engine's fields, the exception
\* that leaves it ("none": it returned) and what validate_inventory raised.
Returns(e, inv) == [e |-> e, exc |-> "none", why |-> "none", inv |-> inv]
Raises(e, exc, why) == [e |-> e, exc |-> exc, why |-> why, inv |-> "none"]

\* Mutant of ExecuteSignal: the trade_executed event is appended before the
\* accounting.
ExecuteSignal_event_first(e, lim, k, signal, fill_price, order_ok) ==
    LET e1 == Call(e, "send_order", k)
    IN  IF ~order_ok THEN Raises(e1, "OrderError", "send_order")
        ELSE
        LET realized_before == e1.position.realized_pnl
            tr == on_trade(e1.position, signal.side, signal.size, fill_price)
            e2 == Call([e1 EXCEPT !.position = tr.position], "on_trade", k)
        IN  IF tr.exc # "none" THEN Raises(e2, tr.exc, "on_trade")
            ELSE
            LET realized_after == e2.position.realized_pnl
                trade_pnl == QSub(realized_after, realized_before)
                ev == [e2 EXCEPT !.events =
                          Append(@, Event("trade_executed", k, "none"))]
                reg == register_trade_pnl(ev.risk, lim, trade_pnl)
                e3 == Call([ev EXCEPT !.risk = reg.risk], "register_trade_pnl", k)
            IN  IF reg.exc # "none" THEN Raises(e3, reg.exc, reg.why)
                ELSE
                LET dec == decrement_open_trades(e3.risk)
                    e4 == Call([e3 EXCEPT !.risk = dec.risk],
                               "decrement_open_trades", k)
                IN  Returns([e4 EXCEPT !.trade_count = @ + 1], "none")

\* engine.py 230-270: execution, accounting, trade_executed event.
ExecuteSignal(e, lim, k, signal, fill_price, order_ok) ==
    LET e1 == Call(e, "send_order", k)
    IN  IF ~order_ok THEN Raises(e1, "OrderError", "send_order")
        ELSE
        LET realized_before == e1.position.realized_pnl
            tr == on_trade(e1.position, signal.side, signal.size, fill_price)
            e2 == Call([e1 EXCEPT !.position = tr.position], "on_trade", k)
        IN  IF tr.exc # "none" THEN Raises(e2, tr.exc, "on_trade")
            ELSE
            LET realized_after == e2.position.realized_pnl
                trade_pnl == QSub(realized_after, realized_before)
                reg == register_trade_pnl(e2.risk, lim, trade_pnl)
                e3 == Call([e2 EXCEPT !.risk = reg.risk], "register_trade_pnl", k)
            IN  IF reg.exc # "none" THEN Raises(e3, reg.exc, reg.why)
                ELSE
                LET dec == decrement_open_trades(e3.risk)
                    e4 == Call([e3 EXCEPT !.risk = dec.risk],
                               "decrement_open_trades", k)
                    e5 == [e4 EXCEPT !.trade_count = @ + 1]
                IN  Returns([e5 EXCEPT !.events =
                                 Append(@, Event("trade_executed", k, "none"))],
                            "none")

\* engine.py 222-228: position size and open trades (circuit breaker).
ValidateRisk(e, lim, k, signal, fill_price, equity, order_ok) ==
    LET notional == QAbs(QMul(Q(signal.size), fill_price))
        vps == validate_position_size(e.risk, lim, Q(equity), notional)
        e1 == Call([e EXCEPT !.risk = vps.risk], "validate_position_size", k)
    IN  IF vps.exc # "none" THEN Raises(e1, vps.exc, vps.why)
        ELSE
        LET inc == increment_open_trades(e1.risk, lim)
            e2 == Call([e1 EXCEPT !.risk = inc.risk], "increment_open_trades", k)
        IN  IF inc.exc # "none" THEN Raises(e2, inc.exc, inc.why)
            ELSE ExecuteSignal(e2, lim, k, signal, fill_price, order_ok)

\* Mutant of _process_signal: the return after the signal_rejected event is
\* missing, so a rejected signal goes on to the risk checks and the order.
_process_signal_no_return(e, lim, ilim, k, signal, last, equity, order_ok) ==
    IF signal.order_type # "MARKET" /\ signal.price = {}
    THEN Raises(e, "ValueError", "limit_price")
    ELSE
    LET fill_price == IF signal.order_type = "MARKET"
                      THEN Q(Val(last)) ELSE Q(Val(signal.price))
        e1 == Call([e EXCEPT !.last_equity = {equity}], "get_account_equity", k)
        inv == validate_inventory(ilim, e1.position.qty, signal.side,
                                  signal.size, fill_price, Q(equity))
        e2 == Call(e1, "validate_inventory", k)
    IN  IF inv.exc = "InventoryLimitExceeded"
        THEN ValidateRisk([e2 EXCEPT !.events =
                              Append(@, Event("signal_rejected", k,
                                              "inventory_limit_exceeded"))],
                          lim, k, signal, fill_price, equity, order_ok)
        ELSE IF inv.exc # "none" THEN Raises(e2, inv.exc, inv.why)
        ELSE ValidateRisk(e2, lim, k, signal, fill_price, equity, order_ok)

\* Mutant of _process_signal: the inventory is validated against a flat
\* position instead of the engine's current one.
_process_signal_flat_inventory(e, lim, ilim, k, signal, last, equity, order_ok) ==
    IF signal.order_type # "MARKET" /\ signal.price = {}
    THEN Raises(e, "ValueError", "limit_price")
    ELSE
    LET fill_price == IF signal.order_type = "MARKET"
                      THEN Q(Val(last)) ELSE Q(Val(signal.price))
        e1 == Call([e EXCEPT !.last_equity = {equity}], "get_account_equity", k)
        inv == validate_inventory(ilim, 0, signal.side,
                                  signal.size, fill_price, Q(equity))
        e2 == Call(e1, "validate_inventory", k)
    IN  IF inv.exc = "InventoryLimitExceeded"
        THEN Returns([e2 EXCEPT !.events =
                         Append(@, Event("signal_rejected", k,
                                         "inventory_limit_exceeded"))],
                     "InventoryLimitExceeded")
        ELSE IF inv.exc # "none" THEN Raises(e2, inv.exc, inv.why)
        ELSE ValidateRisk(e2, lim, k, signal, fill_price, equity, order_ok)

\* engine.py 180-220, then the stages above.
_process_signal(e, lim, ilim, k, signal, last, equity, order_ok) ==
    IF signal.order_type # "MARKET" /\ signal.price = {}
    THEN Raises(e, "ValueError", "limit_price")
    ELSE
    LET fill_price == IF signal.order_type = "MARKET"
                      THEN Q(Val(last)) ELSE Q(Val(signal.price))
        e1 == Call([e EXCEPT !.last_equity = {equity}], "get_account_equity", k)
        inv == validate_inventory(ilim, e1.position.qty, signal.side,
                                  signal.size, fill_price, Q(equity))
        e2 == Call(e1, "validate_inventory", k)
    IN  IF inv.exc = "InventoryLimitExceeded"
        THEN Returns([e2 EXCEPT !.events =
                         Append(@, Event("signal_rejected", k,
                                         "inventory_limit_exceeded"))],
                     "InventoryLimitExceeded")
        ELSE IF inv.exc # "none" THEN Raises(e2, inv.exc, inv.why)
        ELSE ValidateRisk(e2, lim, k, signal, fill_price, equity, order_ok)

\* Mutant of HandleSignal: the break is missing, the loop goes on after a trip.
HandleSignal_no_break(r, k, raise_cb, run, err) ==
    IF r.exc = "CircuitBreakerTripped"
    THEN [running |-> FALSE, last_error |-> "circuit_breaker",
          events |-> Append(r.e.events, Event("circuit_breaker", k, r.why)),
          flow |-> IF raise_cb THEN "raise" ELSE "continue"]
    ELSE IF r.exc # "none"
    THEN [running |-> run, last_error |-> "signal",
          events |-> Append(r.e.events, Event("error", k, "none")),
          flow |-> "continue"]
    ELSE [running |-> run, last_error |-> err, events |-> r.e.events,
          flow |-> "continue"]

\* Mutant of HandleSignal: raise_on_circuit_breaker is ignored, never re-raised.
HandleSignal_never_raise(r, k, raise_cb, run, err) ==
    IF r.exc = "CircuitBreakerTripped"
    THEN [running |-> FALSE, last_error |-> "circuit_breaker",
          events |-> Append(r.e.events, Event("circuit_breaker", k, r.why)),
          flow |-> "break"]
    ELSE IF r.exc # "none"
    THEN [running |-> run, last_error |-> "signal",
          events |-> Append(r.e.events, Event("error", k, "none")),
          flow |-> "continue"]
    ELSE [running |-> run, last_error |-> err, events |-> r.e.events,
          flow |-> "continue"]

\* engine.py 119-156: the try/except around _process_signal in the for loop.
\* r is what _process_signal left; flow is how the loop goes on.
HandleSignal(r, k, raise_cb, run, err) ==
    IF r.exc = "CircuitBreakerTripped"
    THEN [running |-> FALSE, last_error |-> "circuit_breaker",
          events |-> Append(r.e.events, Event("circuit_breaker", k, r.why)),
          flow |-> IF raise_cb THEN "raise" ELSE "break"]
    ELSE IF r.exc # "none"
    THEN [running |-> run, last_error |-> "signal",
          events |-> Append(r.e.events, Event("error", k, "none")),
          flow |-> "continue"]
    ELSE [running |-> run, last_error |-> err, events |-> r.e.events,
          flow |-> "continue"]

\* What the driver gets from a call that ended with the list `evs` and left
\* by `exit`: the list (return events) or, by a raise, nothing.
Delivered(how, evs) == IF how = "return" THEN evs ELSE << >>

EngineFields ==
    [position |-> position, risk |-> risk, trade_count |-> trade_count,
     last_equity |-> last_equity, events |-> events, calls |-> calls]

\* TradingEngine.__init__
InitEngine ==
    /\ position = PositionInit
    /\ running = TRUE
    /\ raise_on_circuit_breaker \in BOOLEAN
    /\ tick_count = 0
    /\ trade_count = 0
    /\ last_error = "None"
    /\ last_equity = {}
    /\ last_tick = {}
    /\ pc = "idle"
    /\ nsignals = 0
    /\ idx = 0
    /\ events = << >>
    /\ flow = "none"
    /\ exit = "none"
    /\ calls = << >>
    /\ cur = NoCur

\* process_tick on a stopped engine (engine.py 90-94).
ProcessTickStopped ==
    /\ pc = "idle"
    /\ ~running
    /\ events' = << >>
    /\ pc' = "done"
    /\ exit' = "return"
    /\ UNCHANGED << unitVars, limits, risk, rlast, position, running,
                    raise_on_circuit_breaker, tick_count, trade_count,
                    last_error, last_equity, last_tick, nsignals, idx,
                    calls, cur, flow >>

\* Mutant of ProcessTickNoLast: the tick is dropped before it is counted.
ProcessTickNoLast_uncounted ==
    /\ pc = "idle"
    /\ running
    /\ tick_count < MaxTicks
    /\ last_tick' = {}
    /\ last_error' = "None"
    /\ events' = << >>
    /\ pc' = "done"
    /\ exit' = "return"
    /\ UNCHANGED << unitVars, limits, risk, rlast, position, running,
                    raise_on_circuit_breaker, tick_count, trade_count,
                    last_equity, nsignals, idx, calls, cur, flow >>

\* process_tick with a tick that has no "last" (engine.py 96-103).
ProcessTickNoLast ==
    /\ pc = "idle"
    /\ running
    /\ tick_count < MaxTicks
    /\ tick_count' = tick_count + 1
    /\ last_tick' = {}
    /\ last_error' = "None"
    /\ events' = << >>
    /\ pc' = "done"
    /\ exit' = "return"
    /\ UNCHANGED << unitVars, limits, risk, rlast, position, running,
                    raise_on_circuit_breaker, trade_count, last_equity,
                    nsignals, idx, calls, cur, flow >>

\* Mutant of ProcessTickStrategyError: a strategy error stops the engine.
ProcessTickStrategyError_stops ==
    /\ pc = "idle"
    /\ running
    /\ tick_count < MaxTicks
    /\ \E last \in LastPrices : last_tick' = {last}
    /\ tick_count' = tick_count + 1
    /\ calls' = << <<"on_tick:raise", 0>> >>
    /\ last_error' = "strategy"
    /\ events' = << Event("error", 0, "none") >>
    /\ running' = FALSE
    /\ pc' = "done"
    /\ exit' = "return"
    /\ UNCHANGED << unitVars, limits, risk, rlast, position,
                    raise_on_circuit_breaker, trade_count, last_equity,
                    nsignals, idx, cur, flow >>

\* process_tick when strategy.on_tick raises (engine.py 105-113).
ProcessTickStrategyError ==
    /\ pc = "idle"
    /\ running
    /\ tick_count < MaxTicks
    /\ \E last \in LastPrices : last_tick' = {last}
    /\ tick_count' = tick_count + 1
    /\ calls' = << <<"on_tick:raise", 0>> >>
    /\ last_error' = "strategy"
    /\ events' = << Event("error", 0, "none") >>
    /\ pc' = "done"
    /\ exit' = "return"
    /\ UNCHANGED << unitVars, limits, risk, rlast, position, running,
                    raise_on_circuit_breaker, trade_count, last_equity,
                    nsignals, idx, cur, flow >>

\* process_tick when strategy.on_tick returns n signals (engine.py 105-118):
\* with none it returns at once, otherwise it enters the for loop.
ProcessTickSignals ==
    /\ pc = "idle"
    /\ running
    /\ tick_count < MaxTicks
    /\ \E last \in LastPrices : last_tick' = {last}
    /\ tick_count' = tick_count + 1
    /\ last_error' = "None"
    /\ calls' = << <<"on_tick", 0>> >>
    /\ events' = << >>
    /\ idx' = 0
    /\ \E n \in 0..MaxSignals :
         /\ nsignals' = n
         /\ pc' = IF n = 0 THEN "done" ELSE "signals"
         /\ exit' = IF n = 0 THEN "return" ELSE "none"
    /\ UNCHANGED << unitVars, limits, risk, rlast, position, running,
                    raise_on_circuit_breaker, trade_count, last_equity, cur,
                    flow >>

\* The body of one iteration of the for loop (engine.py 118-156): the next
\* signal of the list, whatever the strategy put there, with the execution
\* client's answers, through _process_signal and the except clauses.
ForSignal ==
    /\ pc = "signals"
    /\ \E signal \in Signals, env \in Envs :
       \E r \in {_process_signal(EngineFields, limits, InventoryLimits,
                                 idx + 1, signal, last_tick, env.equity,
                                 env.order_ok)} :
       \E h \in {HandleSignal(r, idx + 1, raise_on_circuit_breaker, running,
                              last_error)} :
         /\ position' = r.e.position
         /\ risk' = r.e.risk
         /\ trade_count' = r.e.trade_count
         /\ last_equity' = r.e.last_equity
         /\ calls' = r.e.calls
         /\ running' = h.running
         /\ last_error' = h.last_error
         /\ events' = h.events
         /\ flow' = h.flow
         /\ idx' = idx + 1
         /\ cur' = [k |-> idx + 1, signal |-> signal, equity |-> env.equity,
                    order_ok |-> env.order_ok, exc |-> r.exc, why |-> r.why,
                    inv |-> r.inv]
    /\ pc' = "handled"
    /\ UNCHANGED << unitVars, limits, rlast, raise_on_circuit_breaker, tick_count,
                    last_tick, nsignals, exit >>

\* The end of an iteration (engine.py 118, 137, 140, 158): the loop takes the
\* next signal, or the call ends by the return after the loop (the list is
\* exhausted, or a break) or by the raise.
LoopNext ==
    /\ pc = "handled"
    /\ pc' = IF flow = "continue" /\ idx < nsignals THEN "signals" ELSE "done"
    /\ exit' = IF flow = "raise" THEN "raise"
               ELSE IF flow = "break" \/ idx = nsignals THEN "return"
               ELSE "none"
    /\ flow' = "none"
    /\ cur' = IF flow = "continue" /\ idx < nsignals THEN NoCur ELSE cur
    /\ UNCHANGED << unitVars, limits, risk, rlast, position, running,
                    raise_on_circuit_breaker, tick_count, trade_count,
                    last_error, last_equity, last_tick, nsignals, idx,
                    events, calls >>

\* The call is over: the driver has the events (or the exception) and the
\* call's locals are gone.
Return ==
    /\ pc = "done"
    /\ pc' = "idle"
    /\ exit' = "none"
    /\ events' = << >>
    /\ calls' = << >>
    /\ idx' = 0
    /\ cur' = NoCur
    /\ UNCHANGED << unitVars, limits, risk, rlast, position, running,
                    raise_on_circuit_breaker, tick_count, trade_count,
                    last_error, last_equity, last_tick, nsignals, flow >>

---------------------------------------------------------------------------
(* The engine: TradingEngine driven one process_tick call after another.   *)

\* No direct call on the PositionManager or the InventoryRiskManager has
\* been made.
NoTrade == [side |-> "", qty |-> 0, price |-> 0, before |-> PositionInit,
            exc |-> ""]
NoInventoryCall == [current_qty |-> 0, side |-> "", qty |-> 0, price |-> 0,
                    equity |-> 0, exc |-> "", why |-> ""]

\* No replay has consumed anything of a tick stream.
NoStream == [ticks |-> 0, signals |-> 0, returned |-> FALSE]

PositionIdle ==
    /\ plast = NoTrade
    /\ signed_sum = 0
    /\ pcalls = 0

InventoryIdle == ilast = NoInventoryCall

BacktestIdle ==
    /\ bt = << >>
    /\ bstream = NoStream

\* No strategy object, no hardening call, no WebSocket feed.
StrategyIdle ==
    /\ strategy = [kind |-> "none"]
    /\ stick = [n |-> 0]

EnvIdle == hard = [called |-> FALSE]

\* BinanceWebSocketDataFeed.__init__: an empty queue, no thread, no book.
\* rpc is the reader thread's position in _handle_message, tick the tick it
\* holds there; messages counts the frames it was given, received, dropped
\* and ignored list the ticks the consumer got, those the reader took out of
\* the queue and those it gave up enqueueing.  wpc is the thread's position
\* in _run_ws_forever ("none": not started, "loop": at the while test, "up":
\* inside run_forever, "exited"), backoff its local variable and waits the
\* durations it has slept.
WsInit ==
    [_running |-> FALSE, queue |-> << >>, _last_bids |-> FALSE,
     _last_asks |-> FALSE, rpc |-> "idle", tick |-> 0, messages |-> 0,
     received |-> << >>, dropped |-> << >>, ignored |-> << >>,
     wpc |-> "none", backoff |-> 1, waits |-> << >>]

WsIdle == ws = WsInit

\* No main() is running.
DriverIdle == drv = [kind |-> "none"]

UnitsIdle ==
    /\ PositionIdle
    /\ InventoryIdle
    /\ BacktestIdle
    /\ StrategyIdle
    /\ EnvIdle
    /\ WsIdle
    /\ DriverIdle

\* No direct call on the RiskManager has been made.
NoRiskCall == [op |-> "none", exc |-> "none", why |-> "none",
               before |-> RiskInit, pnl |-> 0, equity |-> 0, notional |-> 0]

Init ==
    /\ limits \in {EngineRiskLimits(en) : en \in BOOLEAN}
    /\ risk = RiskInit
    /\ rlast = NoRiskCall
    /\ InitEngine
    /\ UnitsIdle

Next ==
    \/ ProcessTickStopped
    \/ ProcessTickNoLast
    \/ ProcessTickStrategyError
    \/ ProcessTickSignals
    \/ ForSignal
    \/ LoopNext
    \/ Return

Spec == Init /\ [][Next]_vars

---------------------------------------------------------------------------
(* The RiskManager alone, under any sequence of calls of its four          *)
(* operations (tests/test_risk.py calls it this way).                      *)

\* Arguments of the direct calls.
RiskPnls == {-60, -50, -20, 30}
RiskEquities == {0, 1000}
RiskNotionals == {100, 200}

\* The engine is not used.
EngineIdle ==
    /\ InitEngine
    /\ raise_on_circuit_breaker = TRUE

RiskCall(op, res, pnl, equity, notional) ==
    /\ risk' = res.risk
    /\ rlast' = [op |-> op, exc |-> res.exc, why |-> res.why, before |-> risk,
                 pnl |-> pnl, equity |-> equity, notional |-> notional]
    /\ UNCHANGED << unitVars, limits >>
    /\ UNCHANGED engineVars

RiskRegisterTradePnl ==
    \E pnl \in RiskPnls :
      /\ QLe(QAbs(QAdd(risk.daily_pnl, Q(pnl))), Q(MaxAbsPnl))
      /\ RiskCall("register_trade_pnl",
                  register_trade_pnl(risk, limits, Q(pnl)), pnl, 0, 0)

RiskIncrementOpenTrades ==
    /\ risk.open_trades < MaxOpenCount
    /\ RiskCall("increment_open_trades",
                increment_open_trades(risk, limits), 0, 0, 0)

RiskDecrementOpenTrades ==
    RiskCall("decrement_open_trades", decrement_open_trades(risk), 0, 0, 0)

RiskValidatePositionSize ==
    \E equity \in RiskEquities, notional \in RiskNotionals :
      RiskCall("validate_position_size",
               validate_position_size(risk, limits, Q(equity), Q(notional)),
               0, equity, notional)

InitRisk ==
    /\ limits \in {TestRiskLimits(en) : en \in BOOLEAN}
    /\ risk = RiskInit
    /\ rlast = NoRiskCall
    /\ EngineIdle
    /\ UnitsIdle

NextRisk ==
    \/ RiskRegisterTradePnl
    \/ RiskIncrementOpenTrades
    \/ RiskDecrementOpenTrades
    \/ RiskValidatePositionSize

SpecRisk == InitRisk /\ [][NextRisk]_vars

---------------------------------------------------------------------------
(* The PositionManager alone, under any sequence of on_trade calls on a    *)
(* fresh instance (tests/test_position.py calls it this way).              *)

\* Arguments of the direct calls: valid trades, and the invalid ones.
TradeSides == {"BUY", "SELL", "buy"}
TradeQtys == {1, 2}
TradePrices == {90, 110}
Trades ==
    [side : TradeSides, qty : TradeQtys, price : TradePrices]
    \cup { [side |-> "HOLD", qty |-> 1, price |-> 90],
           [side |-> "SELL", qty |-> 0, price |-> 110],
           [side |-> "BUY", qty |-> -1, price |-> 110] }

\* Direction of a side: 1 for BUY, -1 for SELL.
Dir(side) == IF Upper(side) = "BUY" THEN 1 ELSE -1
Sign(q) == IF q > 0 THEN 1 ELSE IF q < 0 THEN -1 ELSE 0

PositionOnTrade ==
    /\ pcalls < MaxTrades
    /\ \E t \in Trades :
       \E r \in {on_trade(position, t.side, t.qty, Q(t.price))} :
         /\ position' = r.position
         /\ plast' = [side |-> t.side, qty |-> t.qty, price |-> t.price,
                      before |-> position, exc |-> r.exc]
         /\ signed_sum' = IF r.exc = "none"
                          THEN signed_sum + Dir(t.side) * t.qty
                          ELSE signed_sum
    /\ pcalls' = pcalls + 1
    /\ UNCHANGED << limits, risk, rlast, invVars, btVars, stratVars, envVars,
                    wsVars, drvVars, running,
                    raise_on_circuit_breaker, tick_count, trade_count,
                    last_error, last_equity, last_tick, pc, nsignals, idx,
                    events, flow, exit, calls, cur >>

\* Only the PositionManager is used.
InitPosition ==
    /\ limits = TestRiskLimits(TRUE)
    /\ risk = RiskInit
    /\ rlast = NoRiskCall
    /\ EngineIdle
    /\ UnitsIdle

NextPosition == PositionOnTrade

SpecPosition == InitPosition /\ [][NextPosition]_vars

---------------------------------------------------------------------------
(* The InventoryRiskManager alone, under any sequence of validate_inventory *)
(* calls (tests/test_inventory.py calls it this way).  Its only field is    *)
(* its frozen limits: a call leaves nothing behind but its outcome.         *)

\* Arguments of the direct calls.
InventoryQtys == -2..2
InventorySides == {"BUY", "SELL", "sell", "HOLD"}
InventoryTradeQtys == {0, 1, 2}
InventoryPrices == {50, 90, 100}
InventoryEquities == {0, 500, 1000}

InventoryValidate ==
    /\ \E current_qty \in InventoryQtys, trade_side \in InventorySides,
          trade_qty \in InventoryTradeQtys, price \in InventoryPrices,
          account_equity \in InventoryEquities :
       \E r \in {validate_inventory(InventoryLimits, current_qty, trade_side,
                                    trade_qty, Q(price), Q(account_equity))} :
         ilast' = [current_qty |-> current_qty, side |-> trade_side,
                   qty |-> trade_qty, price |-> price,
                   equity |-> account_equity, exc |-> r.exc, why |-> r.why]
    /\ UNCHANGED << limits, risk, rlast, posVars, btVars, stratVars, envVars,
                    wsVars,
                    drvVars >>
    /\ UNCHANGED engineVars

InitInventory ==
    /\ limits = TestRiskLimits(TRUE)
    /\ risk = RiskInit
    /\ rlast = NoRiskCall
    /\ EngineIdle
    /\ UnitsIdle

NextInventory == InventoryValidate

SpecInventory == InitInventory /\ [][NextInventory]_vars

---------------------------------------------------------------------------
(* core/backtest.py: BacktestEngine.  Two engines replay the same tick     *)
(* stream with the same strategy signals: engine 1 with slippage_bps = s,  *)
(* engine 2 with slippage_bps = 2s; everything else is equal.              *)

Runs == {1, 2}

\* BacktestConfig
BacktestConfig(fee_rate, slippage_bps) ==
    [initial_equity |-> 1000, fee_rate |-> fee_rate,
     slippage_bps |-> slippage_bps]

\* Configurations of the replays: fee_rate and the slippage s of engine 1.
FeeRates == {Q(0), [n |-> 1, d |-> 100]}
Slippages == {0, 250}

\* The signals of the stream, each with the "last" of its tick.
BacktestSignals ==
    [side : {"BUY", "SELL"}, size : {1, 2}, order_type : {"MARKET"},
     price : {{}}, last : {90, 100, 110}]
    \cup [side : {"BUY", "SELL"}, size : {1}, order_type : {"LIMIT"},
          price : {{p} : p \in LimitPrices}, last : {100}]
    \cup { [side |-> "BUY", size |-> 1, order_type |-> "LIMIT",
            price |-> {}, last |-> 100] }

\* Nothing has gone through _execute_signal yet.
NoExecution ==
    [signal |-> NoSignal, tick_last |-> 0, fill_price |-> Q(0), fee |-> Q(0),
     trade_pnl |-> Q(0), equity_before |-> Q(0), position_before |-> PositionInit,
     exc |-> "", why |-> "", executed |-> FALSE, recorded |-> FALSE]

NoSummary == [final_equity |-> Q(0), net_pnl |-> Q(0), total_trades |-> 0, wins |-> 0, losses |-> 0,
              max_drawdown |-> Q(0)]

\* BacktestEngine.__init__ (backtest.py 51-69), with its own RiskManager.
\* status: "running" (in the replay loop), "stopped" (CircuitBreakerTripped
\* left the loop), "raised" (another exception left run()), "done" (run()
\* returned its result).  executed and round_trips count the signals that
\* reached on_trade and those of them that closed the whole open position.
BacktestInit(cfg) ==
    [cfg |-> cfg, position |-> PositionInit, risk |-> RiskInit,
     equity |-> Q(cfg.initial_equity), trades |-> << >>,
     equity_curve |-> << >>, status |-> "running", last |-> NoExecution,
     executed |-> 0, round_trips |-> 0, summary |-> NoSummary]

\* Mutant of _apply_slippage: basis points taken as tenths of a percent.
_apply_slippage_per_mille(cfg, price, side) ==
    IF cfg.slippage_bps <= 0 THEN price
    ELSE LET factor == QDiv(Q(cfg.slippage_bps), Q(1000))
         IN  IF side = "BUY" THEN QMul(price, QAdd(Q(1), factor))
             ELSE QMul(price, QSub(Q(1), factor))

\* Mutant of _apply_slippage: the slippage improves the price.
_apply_slippage_favourable(cfg, price, side) ==
    IF cfg.slippage_bps <= 0 THEN price
    ELSE LET factor == QDiv(Q(cfg.slippage_bps), Q(10000))
         IN  IF side = "BUY" THEN QMul(price, QSub(Q(1), factor))
             ELSE QMul(price, QAdd(Q(1), factor))

\* backtest.py 73-86
_apply_slippage(cfg, price, side) ==
    IF cfg.slippage_bps <= 0 THEN price
    ELSE LET factor == QDiv(Q(cfg.slippage_bps), Q(10000))
         IN  IF side = "BUY" THEN QMul(price, QAdd(Q(1), factor))
             ELSE QMul(price, QSub(Q(1), factor))

\* _execute_signal left by an exception before on_trade (backtest.py 95-126).
BtRaises(b, x, exc, why) ==
    [b EXCEPT !.last = [x EXCEPT !.exc = exc, !.why = why]]

\* backtest.py 128-161: fee, position, equity, RiskManager, trade record.
BtFill(b, lim, x, signal) ==
    LET notional == QAbs(QMul(Q(signal.size), x.fill_price))
        fee == QMul(notional, b.cfg.fee_rate)
        realized_before == b.position.realized_pnl
        tr == on_trade(b.position, signal.side, signal.size, x.fill_price)
    IN  IF tr.exc # "none" THEN BtRaises(b, x, tr.exc, "on_trade")
        ELSE
        LET realized_after == tr.position.realized_pnl
            trade_pnl == QSub(QSub(realized_after, realized_before), fee)
            equity == QAdd(b.equity, trade_pnl)
            closes == /\ b.position.qty # 0
                      /\ Dir(signal.side) # Sign(b.position.qty)
                      /\ signal.size >= Abs(b.position.qty)
            reg == register_trade_pnl(b.risk, lim, trade_pnl)
            x1 == [x EXCEPT !.fee = fee, !.trade_pnl = trade_pnl,
                            !.executed = TRUE]
            b1 == [b EXCEPT !.position = tr.position, !.equity = equity,
                            !.risk = reg.risk, !.executed = @ + 1,
                            !.round_trips = IF closes THEN @ + 1 ELSE @]
        IN  IF reg.exc # "none" THEN BtRaises(b1, x1, reg.exc, reg.why)
            ELSE
            LET bt_trade == [side |-> signal.side, size |-> signal.size,
                             price |-> x.fill_price, fee |-> fee,
                             pnl |-> trade_pnl, equity_after |-> equity]
            IN  [b1 EXCEPT !.risk = decrement_open_trades(reg.risk).risk,
                           !.trades = Append(@, bt_trade),
                           !.equity_curve = Append(@, equity),
                           !.last = [x1 EXCEPT !.exc = "none", !.why = "none",
                                               !.recorded = TRUE]]

\* backtest.py 93-126: fill price, then the inventory and risk checks.
_execute_signal(b, lim, ilim, signal, last) ==
    LET x0 == [NoExecution EXCEPT !.signal = signal, !.tick_last = last,
                                  !.equity_before = b.equity,
                                  !.position_before = b.position]
    IN  IF signal.order_type # "MARKET" /\ signal.price = {}
        THEN BtRaises(b, x0, "ValueError", "limit_price")
        ELSE
        LET base == IF signal.order_type = "MARKET"
                    THEN Q(last) ELSE Q(Val(signal.price))
            fill_price == _apply_slippage(b.cfg, base, signal.side)
            x == [x0 EXCEPT !.fill_price = fill_price]
            equity_before == b.equity
            notional == QAbs(QMul(Q(signal.size), fill_price))
            inv == validate_inventory(ilim, b.position.qty, signal.side,
                                      signal.size, fill_price, equity_before)
        IN  IF inv.exc # "none" THEN BtRaises(b, x, inv.exc, inv.why)
            ELSE
            LET vps == validate_position_size(b.risk, lim, equity_before,
                                              notional)
            IN  IF vps.exc # "none" THEN BtRaises(b, x, vps.exc, vps.why)
                ELSE
                LET inc == increment_open_trades(vps.risk, lim)
                    b1 == [b EXCEPT !.risk = inc.risk]
                IN  IF inc.exc # "none" THEN BtRaises(b1, x, inc.exc, inc.why)
                    ELSE BtFill(b1, lim, x, signal)

\* Mutant of RunSignal: CircuitBreakerTripped is swallowed like an inventory
\* rejection and the replay goes on.
RunSignal_no_stop(b, lim, ilim, signal, last) ==
    IF b.status # "running" THEN b
    ELSE LET b1 == _execute_signal(b, lim, ilim, signal, last)
         IN  [b1 EXCEPT !.status =
                 IF b1.last.exc \in {"none", "InventoryLimitExceeded",
                                     "CircuitBreakerTripped"}
                 THEN "running"
                 ELSE "raised"]

\* backtest.py 182-191: the except clauses around _execute_signal in run().
RunSignal(b, lim, ilim, signal, last) ==
    IF b.status # "running" THEN b
    ELSE LET b1 == _execute_signal(b, lim, ilim, signal, last)
         IN  [b1 EXCEPT !.status =
                 IF b1.last.exc \in {"none", "InventoryLimitExceeded"}
                 THEN "running"
                 ELSE IF b1.last.exc = "CircuitBreakerTripped" THEN "stopped"
                 ELSE "raised"]

\* backtest.py 234-249, over the equities of the curve
RECURSIVE MaxDrawdownFrom(_, _, _)
MaxDrawdownFrom(curve, max_equity, max_dd) ==
    IF curve = << >> THEN max_dd
    ELSE LET eq == Head(curve)
             m == IF QGt(eq, max_equity) THEN eq ELSE max_equity
             drawdown == QSub(m, eq)
         IN  MaxDrawdownFrom(Tail(curve), m,
                             IF QGt(drawdown, max_dd) THEN drawdown ELSE max_dd)

\* Mutant of _compute_max_drawdown: the fall from the highest point of the
\* curve to its last point.
_compute_max_drawdown_to_last(equity_curve) ==
    IF equity_curve = << >> THEN Q(0)
    ELSE LET peak == CHOOSE e \in {equity_curve[i] : i \in 1..Len(equity_curve)} :
                       \A i \in 1..Len(equity_curve) : QGe(e, equity_curve[i])
         IN  QSub(peak, equity_curve[Len(equity_curve)])

_compute_max_drawdown(equity_curve) ==
    IF equity_curve = << >> THEN Q(0)
    ELSE MaxDrawdownFrom(equity_curve, equity_curve[1], Q(0))

\* backtest.py 210-232
_build_summary(b) ==
    [final_equity |-> b.equity,
     net_pnl |-> QSub(b.equity, Q(b.cfg.initial_equity)),
     total_trades |-> Len(b.trades),
     wins |-> Cardinality({i \in 1..Len(b.trades) : QGt(b.trades[i].pnl, Q(0))}),
     losses |-> Cardinality({i \in 1..Len(b.trades) : QLt(b.trades[i].pnl, Q(0))}),
     max_drawdown |-> _compute_max_drawdown(b.equity_curve)]

\* backtest.py 193-206: what run() does after the loop.
RunReturn(b) ==
    IF b.status = "raised" THEN b
    ELSE LET b1 == IF b.equity_curve = << >>
                   THEN [b EXCEPT !.equity_curve = << b.equity >>]
                   ELSE b
         IN  [b1 EXCEPT !.status = "done", !.summary = _build_summary(b1)]

\* A tick without "last", or for which the strategy emits nothing
\* (backtest.py 174-180): both replays go on to the next tick.
BacktestTickSkipped ==
    /\ ~bstream.returned
    /\ bstream.ticks < MaxBtTicks
    /\ bstream' = [bstream EXCEPT !.ticks = @ + 1]
    /\ UNCHANGED bt
    /\ UNCHANGED << limits, risk, rlast, posVars, invVars, stratVars, envVars,
                    wsVars,
                    drvVars >>
    /\ UNCHANGED engineVars

\* A signal of a tick goes through _execute_signal in every replay that is
\* still in its loop (backtest.py 182-191).
BacktestSignal ==
    /\ ~bstream.returned
    /\ bstream.ticks < MaxBtTicks
    /\ \E r \in Runs : bt[r].status = "running"
    /\ \E signal \in BacktestSignals :
         bt' = [r \in Runs |->
                  RunSignal(bt[r], limits, InventoryLimits,
                            [side |-> signal.side, size |-> signal.size,
                             order_type |-> signal.order_type,
                             price |-> signal.price],
                            signal.last)]
    /\ bstream' = [bstream EXCEPT !.ticks = @ + 1, !.signals = @ + 1]
    /\ UNCHANGED << limits, risk, rlast, posVars, invVars, stratVars, envVars,
                    wsVars,
                    drvVars >>
    /\ UNCHANGED engineVars

\* The stream ends (or every loop was left): run() builds its result.
BacktestReturn ==
    /\ ~bstream.returned
    /\ bt' = [r \in Runs |-> RunReturn(bt[r])]
    /\ bstream' = [bstream EXCEPT !.returned = TRUE]
    /\ UNCHANGED << limits, risk, rlast, posVars, invVars, stratVars, envVars,
                    wsVars,
                    drvVars >>
    /\ UNCHANGED engineVars

InitBacktest ==
    /\ limits = EngineRiskLimits(TRUE)
    /\ risk = RiskInit
    /\ rlast = NoRiskCall
    /\ EngineIdle
    /\ PositionIdle
    /\ InventoryIdle
    /\ StrategyIdle
    /\ EnvIdle
    /\ WsIdle
    /\ DriverIdle
    /\ \E fee_rate \in FeeRates, s \in Slippages :
         bt = [r \in Runs |-> BacktestInit(BacktestConfig(fee_rate, r * s))]
    /\ bstream = NoStream

NextBacktest ==
    \/ BacktestTickSkipped
    \/ BacktestSignal
    \/ BacktestReturn

SpecBacktest == InitBacktest /\ [][NextBacktest]_vars

---------------------------------------------------------------------------
(* strategies/: the strategy objects, each driven by on_tick calls.        *)

\* A tick: every field is Optional ({} when the key is missing).
Tick(bid, ask, last, bid_size, ask_size) ==
    [bid |-> bid, ask |-> ask, last |-> last, bid_size |-> bid_size,
     ask_size |-> ask_size]

\* core/strategy.py: Signal
StrategySignal(side, size, order_type, price, tag) ==
    [side |-> side, size |-> size, order_type |-> order_type, price |-> price,
     tag |-> tag]

\* deque(maxlen = n).append
DequeAppend(dq, x, maxlen) ==
    IF Len(dq) < maxlen THEN Append(dq, x)
    ELSE IF maxlen = 0 THEN << >>
    ELSE Append(Tail(dq), x)

RECURSIVE QSum(_)
QSum(seq) == IF seq = << >> THEN Q(0) ELSE QAdd(Head(seq), QSum(Tail(seq)))

QMax(a, b) == IF QGt(a, b) THEN a ELSE b
QMin(a, b) == IF QLt(a, b) THEN a ELSE b

\* Sample variance of a sequence of at least one price, divided by
\* max(1, n - 1).
Variance(seq) ==
    LET n == Len(seq)
        mean == QDiv(QSum(seq), Q(n))
        sq == [i \in 1..n |-> QMul(QSub(seq[i], mean), QSub(seq[i], mean))]
    IN  QDiv(QSum(sq), Q(IF n - 1 > 1 THEN n - 1 ELSE 1))

\* x ** 0.5 of a float x >= 0, rounded down to a multiple of 1/SqrtScale.
SqrtScale == 16
Sqrt(x) ==
    LET m == (x.n * SqrtScale * SqrtScale) \div x.d
        k == CHOOSE k \in 0..(m + 1) : k * k <= m /\ (k + 1) * (k + 1) > m
    IN  Norm(k, SqrtScale)

\* What an on_tick call leaves: the strategy's fields and the list returned.
Emits(st, out) == [strategy |-> st, out |-> out]

\* MarketMakerV1Config / MarketMakerV2Config
MarketMakerConfigs ==
    [min_spread : {1}, max_spread : {3}, spread_pct : {0, 2}, quote_size : {1},
     tick_interval : {1, 2}, vol_window : {2}, vol_factor : {1}]

\* The quotes of both market makers (market_maker_v1.py 61-81).
Quotes(cfg, mid, desired_spread, bid_tag, ask_tag) ==
    LET quote_bid == QSub(mid, QDiv(desired_spread, Q(2)))
        quote_ask == QAdd(mid, QDiv(desired_spread, Q(2)))
    IN  << StrategySignal("BUY", cfg.quote_size, "LIMIT", {quote_bid}, bid_tag),
           StrategySignal("SELL", cfg.quote_size, "LIMIT", {quote_ask}, ask_tag) >>

BaseSpread(cfg, mid) ==
    IF cfg.spread_pct > 0 THEN QMul(QDiv(Q(cfg.spread_pct), Q(100)), mid)
    ELSE Q(cfg.min_spread)

\* MarketMakerV1.on_tick
MarketMakerV1_on_tick(st, tick) ==
    LET st1 == [st EXCEPT !.counter = @ + 1]
    IN  IF st1.counter % st1.cfg.tick_interval # 0 THEN Emits(st1, << >>)
        ELSE IF tick.bid = {} \/ tick.ask = {} THEN Emits(st1, << >>)
        ELSE
        LET mid == QDiv(QAdd(Q(Val(tick.bid)), Q(Val(tick.ask))), Q(2))
            base_spread == BaseSpread(st1.cfg, mid)
            desired_spread == QMax(Q(st1.cfg.min_spread),
                                   QMin(base_spread, Q(st1.cfg.max_spread)))
        IN  Emits(st1, Quotes(st1.cfg, mid, desired_spread, "MM_BID", "MM_ASK"))

\* MarketMakerV2._calc_volatility
_calc_volatility(st) ==
    IF Len(st.history) < 2 THEN Q(0) ELSE Sqrt(Variance(st.history))

\* Mutant of MarketMakerV2_on_tick: only the ticks with bid and ask are
\* counted.
MarketMakerV2_on_tick_counts_quoted(st, tick) ==
    IF tick.bid = {} \/ tick.ask = {} THEN Emits(st, << >>)
    ELSE
    LET mid == QDiv(QAdd(Q(Val(tick.bid)), Q(Val(tick.ask))), Q(2))
        st2 == [st EXCEPT !.counter = @ + 1,
                          !.history = DequeAppend(@, mid, st.cfg.vol_window)]
    IN  IF st2.counter % st2.cfg.tick_interval # 0 THEN Emits(st2, << >>)
        ELSE
        LET base_spread == BaseSpread(st2.cfg, mid)
            vol == _calc_volatility(st2)
            raw_spread == QAdd(base_spread, QMul(Q(st2.cfg.vol_factor), vol))
            desired_spread == QMax(Q(st2.cfg.min_spread),
                                   QMin(raw_spread, Q(st2.cfg.max_spread)))
        IN  Emits(st2, Quotes(st2.cfg, mid, desired_spread,
                              "MM_V2_BID", "MM_V2_ASK"))

\* MarketMakerV2.on_tick
MarketMakerV2_on_tick(st, tick) ==
    LET st1 == [st EXCEPT !.counter = @ + 1]
    IN  IF tick.bid = {} \/ tick.ask = {} THEN Emits(st1, << >>)
        ELSE
        LET mid == QDiv(QAdd(Q(Val(tick.bid)), Q(Val(tick.ask))), Q(2))
            st2 == [st1 EXCEPT !.history =
                                  DequeAppend(@, mid, st1.cfg.vol_window)]
        IN  IF st2.counter % st2.cfg.tick_interval # 0 THEN Emits(st2, << >>)
            ELSE
            LET base_spread == BaseSpread(st2.cfg, mid)
                vol == _calc_volatility(st2)
                raw_spread == QAdd(base_spread, QMul(Q(st2.cfg.vol_factor), vol))
                desired_spread == QMax(Q(st2.cfg.min_spread),
                                       QMin(raw_spread, Q(st2.cfg.max_spread)))
            IN  Emits(st2, Quotes(st2.cfg, mid, desired_spread,
                                  "MM_V2_BID", "MM_V2_ASK"))

\* The constructors: counter 0, empty deque, no cooldown.
StrategyInit(kind, cfg) ==
    [kind |-> kind, cfg |-> cfg, counter |-> 0, history |-> << >>,
     cooldown |-> 0]

NoTick == Tick({}, {}, {}, {}, {})

\* No on_tick call yet.  quiet counts the calls since the last one that
\* returned signals, emitted tells whether any call has; gap and had are
\* their values before the last call.
NoStrategyCall(st) ==
    [n |-> 0, tick |-> NoTick, out |-> << >>, before |-> st, quiet |-> 0,
     emitted |-> FALSE, gap |-> 0, had |-> FALSE]

\* An on_tick call on the strategy, of kind `kind`, that left `res`.
StrategyCall(kind, tick, res) ==
    /\ strategy' = res.strategy
    /\ stick' = [n |-> stick.n + 1, tick |-> tick, out |-> res.out,
                 before |-> strategy,
                 quiet |-> IF res.out # << >> THEN 0 ELSE stick.quiet + 1,
                 emitted |-> stick.emitted \/ res.out # << >>,
                 gap |-> stick.quiet, had |-> stick.emitted]
    /\ UNCHANGED << limits, risk, rlast, posVars, invVars, btVars, envVars,
                    wsVars,
                    drvVars >>
    /\ UNCHANGED engineVars

\* Ticks for the market makers: best bid and ask, either may be missing.
MarketMakerTicks ==
    { Tick({b[1]}, {b[2]}, {}, {}, {}) :
          b \in {<<100, 102>>, <<101, 103>>, <<99, 101>>} }
    \cup { Tick({}, {102}, {}, {}, {}), Tick({100}, {}, {}, {}, {}) }

MarketMakerV1OnTick ==
    /\ strategy.kind = "MarketMakerV1"
    /\ stick.n < MaxStrategyCalls
    /\ \E tick \in MarketMakerTicks :
         StrategyCall("MarketMakerV1", tick, MarketMakerV1_on_tick(strategy, tick))

MarketMakerV2OnTick ==
    /\ strategy.kind = "MarketMakerV2"
    /\ stick.n < MaxStrategyCalls
    /\ \E tick \in MarketMakerTicks :
         StrategyCall("MarketMakerV2", tick, MarketMakerV2_on_tick(strategy, tick))

\* MeanReversionV1Config
MeanReversionConfigs ==
    [lookback_ticks : {3, 5}, z_threshold : {Q(1)}, order_size : {1},
     cooldown_ticks : {0, 2}, side_bias : {"both", "long_only", "short_only"},
     max_z_cap : {Q(5), Q(1), Norm(1, 2)}]

\* _bias_allows of MeanReversionV1, MicroMomentumV1 and ImbalanceV1
_bias_allows(cfg, side) ==
    \/ cfg.side_bias = "both"
    \/ cfg.side_bias = "long_only" /\ side = "BUY"
    \/ cfg.side_bias = "short_only" /\ side = "SELL"

\* d / sqrt(var) >= c, for var > 0, decided on the squares.
RatioGe(d, var, c) ==
    IF QGe(c, Q(0))
    THEN QGe(d, Q(0)) /\ QGe(QMul(d, d), QMul(QMul(c, c), var))
    ELSE QGe(d, Q(0)) \/ QLe(QMul(d, d), QMul(QMul(c, c), var))

RatioLe(d, var, c) == RatioGe(QSub(Q(0), d), var, QSub(Q(0), c))

\* A z-score: the number v, or the ratio d / sqrt(var).
ZNum(v) == [kind |-> "num", v |-> v, d |-> Q(0), var |-> Q(1)]
ZRatio(d, var) == [kind |-> "ratio", v |-> Q(0), d |-> d, var |-> var]
ZGe(z, c) == IF z.kind = "num" THEN QGe(z.v, c) ELSE RatioGe(z.d, z.var, c)
ZLe(z, c) == IF z.kind = "num" THEN QLe(z.v, c) ELSE RatioLe(z.d, z.var, c)
\* abs(z) < c
ZAbsLt(z, c) == ~ZGe(z, c) /\ ~ZLe(z, QSub(Q(0), c))

\* MeanReversionV1._compute_z_score: None ({}) or the clamped z-score.
_compute_z_score(st, last) ==
    IF Len(st.history) < st.cfg.lookback_ticks THEN {}
    ELSE
    LET n == Len(st.history)
        mean == QDiv(QSum(st.history), Q(n))
        var == Variance(st.history)
        d == QSub(last, mean)
        cap == st.cfg.max_z_cap
    IN  IF QLe(var, Q(0)) THEN {}
        ELSE IF ~RatioLe(d, var, cap) THEN {ZNum(cap)}
        ELSE IF ~RatioGe(d, var, QSub(Q(0), cap)) THEN {ZNum(QSub(Q(0), cap))}
        ELSE {ZRatio(d, var)}

\* Mutant of MeanReversionV1_on_tick: the sides are swapped.
MeanReversionV1_on_tick_trend(st, tick) ==
    IF tick.last = {} THEN Emits(st, << >>)
    ELSE
    LET last == Q(Val(tick.last))
        st1 == [st EXCEPT !.history = DequeAppend(@, last, st.cfg.lookback_ticks)]
        zs == _compute_z_score(st1, last)
        thr == st1.cfg.z_threshold
    IN  IF st1.cooldown > 0
        THEN Emits([st1 EXCEPT !.cooldown = @ - 1], << >>)
        ELSE IF zs = {} THEN Emits(st1, << >>)
        ELSE IF ZAbsLt(Val(zs), thr) THEN Emits(st1, << >>)
        ELSE
        LET side == IF ZLe(Val(zs), QSub(Q(0), thr)) THEN "SELL"
                    ELSE IF ZGe(Val(zs), thr) THEN "BUY" ELSE "none"
        IN  IF side = "none" THEN Emits(st1, << >>)
            ELSE IF ~_bias_allows(st1.cfg, side) THEN Emits(st1, << >>)
            ELSE Emits([st1 EXCEPT !.cooldown = st1.cfg.cooldown_ticks],
                       << StrategySignal(side, st1.cfg.order_size, "MARKET", {},
                                         "MEAN_REV_V1") >>)

\* MeanReversionV1.on_tick
MeanReversionV1_on_tick(st, tick) ==
    IF tick.last = {} THEN Emits(st, << >>)
    ELSE
    LET last == Q(Val(tick.last))
        st1 == [st EXCEPT !.history = DequeAppend(@, last, st.cfg.lookback_ticks)]
        zs == _compute_z_score(st1, last)
        thr == st1.cfg.z_threshold
    IN  IF st1.cooldown > 0
        THEN Emits([st1 EXCEPT !.cooldown = @ - 1], << >>)
        ELSE IF zs = {} THEN Emits(st1, << >>)
        ELSE IF ZAbsLt(Val(zs), thr) THEN Emits(st1, << >>)
        ELSE
        LET side == IF ZLe(Val(zs), QSub(Q(0), thr)) THEN "BUY"
                    ELSE IF ZGe(Val(zs), thr) THEN "SELL" ELSE "none"
        IN  IF side = "none" THEN Emits(st1, << >>)
            ELSE IF ~_bias_allows(st1.cfg, side) THEN Emits(st1, << >>)
            ELSE Emits([st1 EXCEPT !.cooldown = st1.cfg.cooldown_ticks],
                       << StrategySignal(side, st1.cfg.order_size, "MARKET", {},
                                         "MEAN_REV_V1") >>)

\* Ticks of the price strategies: a last price, or none.
LastTicks == { Tick({}, {}, l, {}, {}) : l \in {{}, {98}, {100}, {102}} }

MeanReversionV1OnTick ==
    /\ strategy.kind = "MeanReversionV1"
    /\ stick.n < MaxStrategyCalls
    /\ \E tick \in LastTicks :
         StrategyCall("MeanReversionV1", tick,
                      MeanReversionV1_on_tick(strategy, tick))

\* MicroMomentumV1Config
MicroMomentumConfigs ==
    [lookback_ticks : {3}, min_moves : {1, 2},
     min_return : {Norm(1, 100), Norm(1, 40)}, order_size : {1},
     cooldown_ticks : {0, 2}, side_bias : {"both", "long_only", "short_only"}]

\* The loop of _check_momentum from index i on: the counters of consecutive
\* up and down moves it ends with.
RECURSIVE CountMoves(_, _, _, _)
CountMoves(prices, i, up_moves, down_moves) ==
    IF i > Len(prices) THEN [up_moves |-> up_moves, down_moves |-> down_moves]
    ELSE IF QGt(prices[i], prices[i - 1])
         THEN CountMoves(prices, i + 1, up_moves + 1, 0)
    ELSE IF QLt(prices[i], prices[i - 1])
         THEN CountMoves(prices, i + 1, 0, down_moves + 1)
    ELSE CountMoves(prices, i + 1, 0, 0)

\* Mutant of _check_momentum: an equal price leaves the counters alone.
_check_momentum_no_reset(st) ==
    IF Len(st.history) < st.cfg.lookback_ticks THEN {}
    ELSE
    LET prices == st.history
        p0 == prices[1]
        pN == prices[Len(prices)]
        up == { i \in 2..Len(prices) : QGt(prices[i], prices[i - 1]) }
        down == { i \in 2..Len(prices) : QLt(prices[i], prices[i - 1]) }
    IN  IF QLe(p0, Q(0)) THEN {}
        ELSE
        LET ret == QDiv(QSub(pN, p0), p0)
        IN  IF down = {} /\ Cardinality(up) >= st.cfg.min_moves
               /\ QGe(ret, st.cfg.min_return)
            THEN {"UP"}
            ELSE IF up = {} /\ Cardinality(down) >= st.cfg.min_moves
                    /\ QLe(ret, QSub(Q(0), st.cfg.min_return))
            THEN {"DOWN"}
            ELSE {}

\* MicroMomentumV1._check_momentum: {"UP"}, {"DOWN"} or None ({}).
_check_momentum(st) ==
    IF Len(st.history) < st.cfg.lookback_ticks THEN {}
    ELSE
    LET prices == st.history
        p0 == prices[1]
        pN == prices[Len(prices)]
    IN  IF QLe(p0, Q(0)) THEN {}
        ELSE
        LET ret == QDiv(QSub(pN, p0), p0)
            moves == CountMoves(prices, 2, 0, 0)
        IN  IF moves.up_moves >= st.cfg.min_moves /\ QGe(ret, st.cfg.min_return)
            THEN {"UP"}
            ELSE IF moves.down_moves >= st.cfg.min_moves
                    /\ QLe(ret, QSub(Q(0), st.cfg.min_return))
            THEN {"DOWN"}
            ELSE {}

\* MicroMomentumV1._bias_allows
_bias_allows_direction(cfg, direction) ==
    \/ cfg.side_bias = "both"
    \/ cfg.side_bias = "long_only" /\ direction = "UP"
    \/ cfg.side_bias = "short_only" /\ direction = "DOWN"

\* MicroMomentumV1.on_tick
MicroMomentumV1_on_tick(st, tick) ==
    IF tick.last = {} THEN Emits(st, << >>)
    ELSE
    LET last == Q(Val(tick.last))
        st1 == [st EXCEPT !.history = DequeAppend(@, last, st.cfg.lookback_ticks)]
        direction == _check_momentum(st1)
    IN  IF st1.cooldown > 0
        THEN Emits([st1 EXCEPT !.cooldown = @ - 1], << >>)
        ELSE IF direction = {} THEN Emits(st1, << >>)
        ELSE IF ~_bias_allows_direction(st1.cfg, Val(direction))
             THEN Emits(st1, << >>)
        ELSE
        LET side == IF Val(direction) = "UP" THEN "BUY" ELSE "SELL"
        IN  Emits([st1 EXCEPT !.cooldown = st1.cfg.cooldown_ticks],
                  << StrategySignal(side, st1.cfg.order_size, "MARKET", {},
                                    "MICRO_MOMENTUM_V1") >>)

\* Ticks of the momentum strategy: a last price, or none.
MomentumTicks == { Tick({}, {}, l, {}, {}) : l \in {{}, {100}, {101}, {102}, {103}} }

MicroMomentumV1OnTick ==
    /\ strategy.kind = "MicroMomentumV1"
    /\ stick.n < MaxStrategyCalls
    /\ \E tick \in MomentumTicks :
         StrategyCall("MicroMomentumV1", tick,
                      MicroMomentumV1_on_tick(strategy, tick))

\* ImbalanceV1Config
ImbalanceConfigs ==
    [imbalance_threshold : {Q(0), Norm(1, 2)}, min_total_size : {2},
     order_size : {1}, cooldown_ticks : {0, 2},
     side_bias : {"both", "long_only", "short_only"}]

\* Mutant of ImbalanceV1_on_tick: the gate decrements the counter by two.
ImbalanceV1_on_tick_fast_cooldown(st, tick) ==
    IF st.cooldown > 0 THEN Emits([st EXCEPT !.cooldown = @ - 2], << >>)
    ELSE IF tick.bid = {} \/ tick.ask = {} \/ tick.bid_size = {}
            \/ tick.ask_size = {}
    THEN Emits(st, << >>)
    ELSE
    LET bid_size == Val(tick.bid_size)
        ask_size == Val(tick.ask_size)
        total_size == bid_size + ask_size
    IN  IF total_size <= 0 \/ total_size < st.cfg.min_total_size
        THEN Emits(st, << >>)
        ELSE
        LET imbalance == Norm(bid_size - ask_size, total_size)
            side == IF QGt(imbalance, Q(0)) THEN "BUY" ELSE "SELL"
        IN  IF QLt(QAbs(imbalance), st.cfg.imbalance_threshold)
            THEN Emits(st, << >>)
            ELSE IF ~_bias_allows(st.cfg, side) THEN Emits(st, << >>)
            ELSE Emits([st EXCEPT !.cooldown = st.cfg.cooldown_ticks],
                       << StrategySignal(side, st.cfg.order_size, "MARKET", {},
                                         "IMBALANCE_V1") >>)

\* ImbalanceV1.on_tick
ImbalanceV1_on_tick(st, tick) ==
    IF st.cooldown > 0 THEN Emits([st EXCEPT !.cooldown = @ - 1], << >>)
    ELSE IF tick.bid = {} \/ tick.ask = {} \/ tick.bid_size = {}
            \/ tick.ask_size = {}
    THEN Emits(st, << >>)
    ELSE
    LET bid_size == Val(tick.bid_size)
        ask_size == Val(tick.ask_size)
        total_size == bid_size + ask_size
    IN  IF total_size <= 0 \/ total_size < st.cfg.min_total_size
        THEN Emits(st, << >>)
        ELSE
        LET imbalance == Norm(bid_size - ask_size, total_size)
            side == IF QGt(imbalance, Q(0)) THEN "BUY" ELSE "SELL"
        IN  IF QLt(QAbs(imbalance), st.cfg.imbalance_threshold)
            THEN Emits(st, << >>)
            ELSE IF ~_bias_allows(st.cfg, side) THEN Emits(st, << >>)
            ELSE Emits([st EXCEPT !.cooldown = st.cfg.cooldown_ticks],
                       << StrategySignal(side, st.cfg.order_size, "MARKET", {},
                                         "IMBALANCE_V1") >>)

\* Ticks of the order book: best bid and ask with their sizes, or a tick
\* that lacks one of the four.
BookTicks ==
    { Tick({100}, {101}, {}, {b}, {a}) : b \in {0, 1, 3}, a \in {0, 1, 3} }
    \cup { Tick({}, {101}, {}, {3}, {1}), Tick({100}, {}, {}, {3}, {1}),
           Tick({100}, {101}, {}, {}, {1}), Tick({100}, {101}, {}, {3}, {}) }

ImbalanceV1OnTick ==
    /\ strategy.kind = "ImbalanceV1"
    /\ stick.n < MaxStrategyCalls
    /\ \E tick \in BookTicks :
         StrategyCall("ImbalanceV1", tick, ImbalanceV1_on_tick(strategy, tick))

\* The strategies a replay or the live loop may be given.
Strategies ==
    { StrategyInit(kind, cfg) :
          kind \in {"MarketMakerV1", "MarketMakerV2"}, cfg \in MarketMakerConfigs }
    \cup { StrategyInit("MeanReversionV1", cfg) : cfg \in MeanReversionConfigs }
    \cup { StrategyInit("MicroMomentumV1", cfg) : cfg \in MicroMomentumConfigs }
    \cup { StrategyInit("ImbalanceV1", cfg) : cfg \in ImbalanceConfigs }

InitStrategies ==
    /\ limits = TestRiskLimits(TRUE)
    /\ risk = RiskInit
    /\ rlast = NoRiskCall
    /\ EngineIdle
    /\ PositionIdle
    /\ InventoryIdle
    /\ BacktestIdle
    /\ EnvIdle
    /\ WsIdle
    /\ DriverIdle
    /\ strategy \in Strategies
    /\ stick = NoStrategyCall(strategy)

NextStrategies ==
    \/ MarketMakerV1OnTick
    \/ MarketMakerV2OnTick
    \/ MeanReversionV1OnTick
    \/ MicroMomentumV1OnTick
    \/ ImbalanceV1OnTick

SpecStrategies == InitStrategies /\ [][NextStrategies]_vars

---------------------------------------------------------------------------
(* app.py: _apply_env_hardening on the settings loaded from the YAML file. *)

\* A value of a settings dict: the key is absent, holds null, or holds a
\* value ("True" / "False" for a bool, "dict" for a mapping).
RiskSettings ==
    { [is |-> "absent", circuit_breaker |-> [is |-> "absent", enabled |-> "absent"]],
      [is |-> "null", circuit_breaker |-> [is |-> "absent", enabled |-> "absent"]] }
    \cup { [is |-> "dict", circuit_breaker |-> cb] :
             cb \in { [is |-> "absent", enabled |-> "absent"],
                      [is |-> "null", enabled |-> "absent"] }
                    \cup { [is |-> "dict", enabled |-> e] :
                             e \in {"absent", "True", "False"} } }

TradingSettings ==
    { [is |-> "absent", dry_run |-> "absent"], [is |-> "null", dry_run |-> "absent"] }
    \cup { [is |-> "dict", dry_run |-> d] : d \in {"absent", "null", "True", "False"} }

Settings == [risk : RiskSettings, trading : TradingSettings]

\* APP_ENV
EnvNames == {"lab_dummy", "binance_testnet", "binance_live"}

\* Values of ALLOW_REAL_TRADING and CONFIRM_I_UNDERSTAND_RISK; {} when the
\* variable is not set.
AllowValues == {{}, {"true"}, {"TRUE"}, {"false"}, {"yes"}}
ConfirmValues == {{}, {"yes"}, {"Yes"}, {"no"}, {"true"}}

\* os.getenv(name, default)
getenv(value, default) == IF value = {} THEN default ELSE Val(value)

\* str.lower on the values above
lower(str) ==
    CASE str = "TRUE" -> "true"
      [] str = "Yes" -> "yes"
      [] OTHER -> str

\* dict.setdefault(key, {}) on a dict-valued key: an absent key gets an
\* empty dict, a present one (null included) is returned as it is.
SetDefaultDict(d) == IF d.is = "absent" THEN [d EXCEPT !.is = "dict"] ELSE d

Hardened(settings, exc) == [settings |-> settings, exc |-> exc]

\* Mutant of _apply_env_hardening: one of the two consents is enough.
_apply_env_hardening_either(settings, env_name, allow_env, confirm_env) ==
    LET risk_cfg == SetDefaultDict(settings.risk)
        trading_cfg == SetDefaultDict(settings.trading)
        s1 == [risk |-> risk_cfg, trading |-> trading_cfg]
    IN  IF trading_cfg.is = "null" THEN Hardened(s1, "AttributeError")
        ELSE
        LET t2 == IF trading_cfg.dry_run = "absent"
                  THEN [trading_cfg EXCEPT !.dry_run = "True"] ELSE trading_cfg
            s2 == [s1 EXCEPT !.trading = t2]
        IN  IF env_name # "binance_live" THEN Hardened(s2, "none")
            ELSE IF risk_cfg.is = "null" THEN Hardened(s2, "AttributeError")
            ELSE
            LET cb == SetDefaultDict(risk_cfg.circuit_breaker)
                s3 == [s2 EXCEPT !.risk.circuit_breaker = cb]
            IN  IF cb.is = "null" THEN Hardened(s3, "TypeError")
                ELSE
                LET s4 == [s3 EXCEPT !.risk.circuit_breaker.enabled = "True"]
                    allow_real == lower(getenv(allow_env, "false")) = "true"
                    confirm == lower(getenv(confirm_env, "no")) = "yes"
                IN  IF ~(allow_real \/ confirm)
                    THEN Hardened([s4 EXCEPT !.trading.dry_run = "True"], "none")
                    ELSE Hardened(s4, "none")

\* _apply_env_hardening: the settings it leaves and the exception it ends
\* with ("none" when it returns).
_apply_env_hardening(settings, env_name, allow_env, confirm_env) ==
    LET risk_cfg == SetDefaultDict(settings.risk)
        trading_cfg == SetDefaultDict(settings.trading)
        s1 == [risk |-> risk_cfg, trading |-> trading_cfg]
    IN  IF trading_cfg.is = "null" THEN Hardened(s1, "AttributeError")
        ELSE
        LET t2 == IF trading_cfg.dry_run = "absent"
                  THEN [trading_cfg EXCEPT !.dry_run = "True"] ELSE trading_cfg
            s2 == [s1 EXCEPT !.trading = t2]
        IN  IF env_name # "binance_live" THEN Hardened(s2, "none")
            ELSE IF risk_cfg.is = "null" THEN Hardened(s2, "AttributeError")
            ELSE
            LET cb == SetDefaultDict(risk_cfg.circuit_breaker)
                s3 == [s2 EXCEPT !.risk.circuit_breaker = cb]
            IN  IF cb.is = "null" THEN Hardened(s3, "TypeError")
                ELSE
                LET s4 == [s3 EXCEPT !.risk.circuit_breaker.enabled = "True"]
                    allow_real == lower(getenv(allow_env, "false")) = "true"
                    confirm == lower(getenv(confirm_env, "no")) = "yes"
                IN  IF ~(allow_real /\ confirm)
                    THEN Hardened([s4 EXCEPT !.trading.dry_run = "True"], "none")
                    ELSE Hardened(s4, "none")

\* load_settings calls _apply_env_hardening once on the loaded settings.
ApplyEnvHardening ==
    /\ ~hard.called
    /\ \E settings \in Settings, env_name \in EnvNames,
          allow_env \in AllowValues, confirm_env \in ConfirmValues :
         \E res \in {_apply_env_hardening(settings, env_name, allow_env,
                                          confirm_env)} :
            hard' = [called |-> TRUE, env_name |-> env_name, given |-> settings,
                     ALLOW_REAL_TRADING |-> allow_env,
                     CONFIRM_I_UNDERSTAND_RISK |-> confirm_env,
                     settings |-> res.settings, exc |-> res.exc]
    /\ UNCHANGED << limits, risk, rlast, posVars, invVars, btVars, stratVars,
                    wsVars,
                    drvVars >>
    /\ UNCHANGED engineVars

InitEnv ==
    /\ limits = TestRiskLimits(TRUE)
    /\ risk = RiskInit
    /\ rlast = NoRiskCall
    /\ EngineIdle
    /\ PositionIdle
    /\ InventoryIdle
    /\ BacktestIdle
    /\ StrategyIdle
    /\ EnvIdle
    /\ WsIdle
    /\ DriverIdle

NextEnv == ApplyEnvHardening

SpecEnv == InitEnv /\ [][NextEnv]_vars

---------------------------------------------------------------------------
(* core/datafeed_ws_binance.py: the reader thread's _handle_message and    *)
(* the consumer's ticks() share the tick queue.  Each Queue operation is   *)
(* atomic (it holds the queue's mutex); the threads interleave between     *)
(* them.                                                                   *)

\* Queue.put_nowait(item)
put_nowait(q, item) ==
    IF Len(q) >= QueueMaxSize THEN [queue |-> q, exc |-> "Full"]
    ELSE [queue |-> Append(q, item), exc |-> "none"]

\* Mutant of get_nowait: the newest item is taken.
get_nowait_newest(q) ==
    IF q = << >> THEN [queue |-> q, item |-> 0, exc |-> "Empty"]
    ELSE [queue |-> SubSeq(q, 1, Len(q) - 1), item |-> q[Len(q)], exc |-> "none"]

\* Queue.get_nowait()
get_nowait(q) ==
    IF q = << >> THEN [queue |-> q, item |-> 0, exc |-> "Empty"]
    ELSE [queue |-> Tail(q), item |-> Head(q), exc |-> "none"]

\* Queue.get() on a queue that is not empty (it blocks on an empty one).
get(q) == [queue |-> Tail(q), item |-> Head(q)]

\* A frame: whether it is JSON, and whether it has bid and ask levels with a
\* positive quantity.
Messages == [json : BOOLEAN, bids : BOOLEAN, asks : BOOLEAN]

\* _handle_message 189-240: the frame is JSON, has a level, and with the
\* sides remembered from earlier frames gives a complete book.
GivesTick(w, message) ==
    /\ message.json
    /\ message.bids \/ message.asks
    /\ message.bids \/ w._last_bids
    /\ message.asks \/ w._last_asks

\* _handle_message 228-231: the sides of the frame are remembered.
Remember(w, message) ==
    IF message.json
    THEN [w EXCEPT !._last_bids = @ \/ message.bids,
                   !._last_asks = @ \/ message.asks]
    ELSE w

WsStep(w) ==
    /\ ws' = w
    /\ UNCHANGED << limits, risk, rlast, posVars, invVars, btVars, stratVars,
                    envVars, drvVars >>
    /\ UNCHANGED engineVars

\* ticks(), first next(): _ensure_ws_running starts the reader thread.
TicksStart ==
    /\ ~ws._running
    /\ WsStep([ws EXCEPT !._running = TRUE, !.wpc = "loop", !.backoff = 1])

\* Mutant of NextBackoff: the cap is missing.
NextBackoff_uncapped(backoff) == backoff * 2

\* _run_ws_forever 174, 179: backoff = min(backoff * 2.0, 60.0)
NextBackoff(backoff) == IF backoff * 2 < 60 THEN backoff * 2 ELSE 60

\* _run_ws_forever 136-170: the while test; while the feed is running the
\* thread builds a WebSocketApp and enters run_forever.
RunWsForever ==
    /\ ws.wpc = "loop"
    /\ Len(ws.waits) < MaxReconnects
    /\ WsStep([ws EXCEPT !.wpc = IF ws._running THEN "up" ELSE "exited"])

\* _run_ws_forever 171-179: run_forever raises or returns (its callbacks run
\* on this thread, so none is under way); the thread sleeps backoff seconds
\* and doubles it up to 60.
RunForeverEnds ==
    /\ ws.wpc = "up" /\ ws.rpc = "idle"
    /\ \E how \in {"raise", "return"} :
         WsStep([ws EXCEPT !.waits = Append(@, ws.backoff),
                           !.backoff = NextBackoff(ws.backoff),
                           !.wpc = "loop"])

\* ticks(): self._queue.get() returns the oldest tick (and blocks while the
\* queue is empty), which is yielded to the consumer.
TicksGet ==
    /\ ws._running
    /\ ws.queue # << >>
    /\ \E g \in {get(ws.queue)} :
         WsStep([ws EXCEPT !.queue = g.queue,
                           !.received = Append(@, g.item)])

\* _handle_message on a frame that gives no tick: it returns before the
\* queue.
HandleMessageNoTick ==
    /\ ws.wpc = "up" /\ ws.rpc = "idle"
    /\ ws.messages < MaxMessages
    /\ \E message \in Messages :
         /\ ~GivesTick(ws, message)
         /\ WsStep([Remember(ws, message) EXCEPT !.messages = @ + 1])

\* _handle_message on a frame that gives a tick, up to the first
\* put_nowait (275): the tick is enqueued, or the queue is full.
HandleMessagePut ==
    /\ ws.wpc = "up" /\ ws.rpc = "idle"
    /\ ws.messages < MaxMessages
    /\ \E message \in Messages :
         /\ GivesTick(ws, message)
         /\ LET tick == ws.messages + 1
                w1 == [Remember(ws, message) EXCEPT !.messages = tick]
                put == put_nowait(w1.queue, tick)
            IN  IF put.exc = "Full"
                THEN WsStep([w1 EXCEPT !.rpc = "full", !.tick = tick])
                ELSE WsStep([w1 EXCEPT !.queue = put.queue])

\* _handle_message 277-280: after queue.Full, get_nowait takes a tick out
\* of the queue, if one is left.
HandleMessageDiscard ==
    /\ ws.rpc = "full"
    /\ \E g \in {get_nowait(ws.queue)} :
         WsStep([ws EXCEPT !.queue = g.queue,
                           !.dropped = IF g.exc = "Empty" THEN @
                                       ELSE Append(@, g.item),
                           !.rpc = "retry"])

\* _handle_message 281-285: the second put_nowait; if the queue is full
\* again the tick is ignored.
HandleMessageRetry ==
    /\ ws.rpc = "retry"
    /\ \E put \in {put_nowait(ws.queue, ws.tick)} :
         WsStep([ws EXCEPT !.queue = put.queue,
                           !.ignored = IF put.exc = "Full"
                                       THEN Append(@, ws.tick) ELSE @,
                           !.rpc = "idle", !.tick = 0])

InitWs ==
    /\ limits = TestRiskLimits(TRUE)
    /\ risk = RiskInit
    /\ rlast = NoRiskCall
    /\ EngineIdle
    /\ PositionIdle
    /\ InventoryIdle
    /\ BacktestIdle
    /\ StrategyIdle
    /\ EnvIdle
    /\ WsIdle
    /\ DriverIdle

NextWs ==
    \/ TicksStart
    \/ TicksGet
    \/ RunWsForever
    \/ RunForeverEnds
    \/ HandleMessageNoTick
    \/ HandleMessagePut
    \/ HandleMessageDiscard
    \/ HandleMessageRetry

SpecWs == InitWs /\ [][NextWs]_vars

---------------------------------------------------------------------------
(* app.py main(): the driver loop over datafeed.ticks() around             *)
(* engine.process_tick; and the earlier main() that processes the signals  *)
(* itself.                                                                 *)

\* main() at the head of its for loop: kind is "cli" (app.py) or "legacy",
\* requested counts the ticks taken from the feed, how tells why main ended.
DriverInit(kind) == [kind |-> kind, pc |-> "loop", requested |-> 0, how |-> "none"]

DriverStep(d) ==
    /\ drv' = d
    /\ UNCHANGED << limits, rlast, posVars, invVars, btVars, stratVars, envVars,
                    wsVars >>

\* Mutant of AfterTick: the loop goes on whatever process_tick returned.
AfterTick_keeps_going(how, evs, run) ==
    IF how = "raise" THEN [pc |-> "crashed", how |-> "exception"]
    ELSE [pc |-> "loop", how |-> "none"]

\* app.py 364-381: what main does with the events process_tick returned:
\* return at a circuit_breaker event, break when the engine is not running,
\* otherwise the next tick.  An exception of process_tick leaves main.
AfterTick(how, evs, run) ==
    IF how = "raise" THEN [pc |-> "crashed", how |-> "exception"]
    ELSE IF \E i \in 1..Len(evs) : evs[i].type = "circuit_breaker"
    THEN [pc |-> "ended", how |-> "circuit_breaker"]
    ELSE IF ~run THEN [pc |-> "ended", how |-> "stopped"]
    ELSE [pc |-> "loop", how |-> "none"]

\* app.py 363: the feed yields the next tick and main calls process_tick.
CliNextTick ==
    /\ drv.kind = "cli" /\ drv.pc = "loop"
    /\ pc = "idle"
    /\ tick_count < MaxTicks
    /\ DriverStep([drv EXCEPT !.pc = "call", !.requested = @ + 1])
    /\ UNCHANGED << risk, engineVars >>

\* app.py 383: KeyboardInterrupt while main waits for a tick.
CliInterrupt ==
    /\ drv.kind = "cli" /\ drv.pc = "loop"
    /\ DriverStep([drv EXCEPT !.pc = "ended", !.how = "KeyboardInterrupt"])
    /\ UNCHANGED << risk, engineVars >>

\* app.py 364: the process_tick call, step by step.
CliProcessTick ==
    /\ drv.kind = "cli" /\ drv.pc = "call"
    /\ \/ ProcessTickNoLast
       \/ ProcessTickStrategyError
       \/ ProcessTickSignals
       \/ ForSignal
       \/ LoopNext

\* app.py 364-381: process_tick is over and main looks at the events.
CliAfterTick ==
    /\ drv.kind = "cli" /\ drv.pc = "call"
    /\ pc = "done"
    /\ \E a \in {AfterTick(exit, Delivered(exit, events), running)} :
         DriverStep([drv EXCEPT !.pc = a.pc, !.how = a.how])
    /\ pc' = "idle"
    /\ exit' = "none"
    /\ events' = << >>
    /\ calls' = << >>
    /\ idx' = 0
    /\ cur' = NoCur
    /\ UNCHANGED << risk, position, running, raise_on_circuit_breaker,
                    tick_count, trade_count, last_error, last_equity, last_tick,
                    nsignals, flow >>

\* part_000 261-333: the body of the earlier main's loop over the signals.
\* No check of a LIMIT price: the fill price is signal.price or tick["last"].
LegacySignalBody(e, lim, ilim, k, signal, last, equity, order_ok) ==
    LET fill_price == IF signal.price # {} THEN Q(Val(signal.price))
                      ELSE Q(Val(last))
        e1 == Call(e, "get_account_equity", k)
        inv == validate_inventory(ilim, e1.position.qty, signal.side,
                                  signal.size, fill_price, Q(equity))
        e2 == Call(e1, "validate_inventory", k)
    IN  IF inv.exc = "InventoryLimitExceeded"
        THEN Returns(e2, "InventoryLimitExceeded")
        ELSE IF inv.exc # "none" THEN Raises(e2, inv.exc, inv.why)
        ELSE ValidateRisk(e2, lim, k, signal, fill_price, equity, order_ok)

\* part_000 254-258: the next tick; the strategy returns n signals.
LegacyNextTick ==
    /\ drv.kind = "legacy" /\ drv.pc = "loop"
    /\ drv.requested < MaxTicks
    /\ \E last \in LastPrices : last_tick' = {last}
    /\ \E n \in 0..MaxSignals :
         /\ nsignals' = n
         /\ DriverStep([drv EXCEPT !.pc = IF n = 0 THEN "loop" ELSE "signals",
                                   !.requested = @ + 1])
    /\ idx' = 0
    /\ calls' = << <<"on_tick", 0>> >>
    /\ cur' = NoCur
    /\ UNCHANGED << risk, position, running, raise_on_circuit_breaker,
                    tick_count, trade_count, last_error, last_equity, events,
                    flow, exit, pc >>

\* part_000 260-333: one signal; main returns when CircuitBreakerTripped is
\* caught, goes on after InventoryLimitExceeded, and any other exception
\* leaves main.
LegacySignal ==
    /\ drv.kind = "legacy" /\ drv.pc = "signals"
    /\ \E signal \in Signals, env \in Envs :
       \E r \in {LegacySignalBody(EngineFields, limits, InventoryLimits,
                                  idx + 1, signal, last_tick, env.equity,
                                  env.order_ok)} :
         /\ position' = r.e.position
         /\ risk' = r.e.risk
         /\ calls' = r.e.calls
         /\ idx' = idx + 1
         /\ cur' = [k |-> idx + 1, signal |-> signal, equity |-> env.equity,
                    order_ok |-> env.order_ok, exc |-> r.exc, why |-> r.why,
                    inv |-> r.inv]
         /\ DriverStep([drv EXCEPT
               !.pc = IF r.exc = "CircuitBreakerTripped" THEN "ended"
                      ELSE IF r.exc # "none" THEN "crashed"
                      ELSE IF idx + 1 < nsignals THEN "signals" ELSE "loop",
               !.how = IF r.exc = "none" THEN "none" ELSE r.exc])
    /\ UNCHANGED << running, raise_on_circuit_breaker, tick_count, trade_count,
                    last_error, last_equity, last_tick, nsignals, events, flow,
                    exit, pc >>

\* app.py 351-360: main builds the engine with raise_on_circuit_breaker =
\* False.
InitDriver ==
    /\ limits \in {EngineRiskLimits(en) : en \in BOOLEAN}
    /\ risk = RiskInit
    /\ rlast = NoRiskCall
    /\ InitEngine
    /\ raise_on_circuit_breaker = FALSE
    /\ PositionIdle
    /\ InventoryIdle
    /\ BacktestIdle
    /\ StrategyIdle
    /\ EnvIdle
    /\ WsIdle
    /\ drv \in {DriverInit("cli"), DriverInit("legacy")}

NextDriver ==
    \/ CliNextTick
    \/ CliInterrupt
    \/ CliProcessTick
    \/ CliAfterTick
    \/ LegacyNextTick
    \/ LegacySignal

SpecDriver == InitDriver /\ [][NextDriver]_vars

---------------------------------------------------------------------------
(* Properties of the engine (specification Spec).                          *)

Last(seq) == seq[Len(seq)]
Made(log, name, k) == \E i \in 1..Len(log) : log[i] = <<name, k>>
EventTypes == {"trade_executed", "signal_rejected", "error", "circuit_breaker"}

\* The price at which the engine fills `signal` during the current tick.
FillPrice(signal) ==
    IF signal.order_type = "MARKET" THEN Q(Val(last_tick))
    ELSE Q(Val(signal.price))

\* `signal` reaches validate_inventory, which raises InventoryLimitExceeded
\* for it against the current position.
InventoryRejects(signal, equity) ==
    /\ ~(signal.order_type # "MARKET" /\ signal.price = {})
    /\ validate_inventory(InventoryLimits, position.qty, signal.side,
                          signal.size, FillPrice(signal),
                          Q(equity)).exc = "InventoryLimitExceeded"

\* `signal` is invalid input: a LIMIT without price, a size <= 0, a side that
\* is neither BUY nor SELL, or an account equity <= 0.
InvalidInput(signal, equity) ==
    \/ signal.order_type = "LIMIT" /\ signal.price = {}
    \/ signal.size <= 0
    \/ signal.side \notin {"BUY", "SELL"}
    \/ equity <= 0

\* C1: with raise_on_circuit_breaker = false, when the processing of a signal
\* raises CircuitBreakerTripped the engine has running = false and the
\* circuit_breaker event as last event, the loop processes no later signal and
\* the call returns that list; every later process_tick call returns [] with
\* no call to the strategy or the execution client and with tick_count,
\* position, risk state and trade_count unchanged, and the engine stays stopped.
C1_CircuitBreakerStopsEngine ==
    [][ /\ (pc = "handled" /\ cur.exc = "CircuitBreakerTripped"
                /\ ~raise_on_circuit_breaker)
           => /\ ~running
              /\ events # << >>
              /\ Last(events) = Event("circuit_breaker", idx, cur.why)
              /\ pc' = "done"
              /\ exit' = "return"
              /\ events' = events
              /\ calls' = calls
        /\ (pc = "idle" /\ ~running /\ ~raise_on_circuit_breaker)
           => /\ pc' = "done"
              /\ exit' = "return"
              /\ events' = << >>
              /\ calls' = << >>
              /\ ~running'
              /\ UNCHANGED << tick_count, position, risk, trade_count >>
      ]_vars

\* Witness of C1: a process_tick call on an engine stopped by a daily-loss
\* trip (not re-raised) has returned [].
C1_Witness ==
    /\ pc = "done" /\ exit = "return" /\ events = << >> /\ calls = << >>
    /\ ~running /\ ~raise_on_circuit_breaker
    /\ last_error = "circuit_breaker" /\ risk.circuit_breaker_hit
    /\ tick_count >= 1

\* C2: when a signal trips the circuit breaker, process_tick ends by raising
\* CircuitBreakerTripped if and only if raise_on_circuit_breaker is true, the
\* engine is not running afterwards in both configurations, and process_tick
\* raises nothing else.
C2_PropagatesIffConfigured ==
    pc = "done" =>
      /\ cur.exc = "CircuitBreakerTripped"
           => (~running /\ (exit = "raise" <=> raise_on_circuit_breaker))
      /\ exit = "raise" => cur.exc = "CircuitBreakerTripped"

\* Witness of C2: a call ended by re-raising a position-size trip.
C2_Witness ==
    /\ pc = "done" /\ exit = "raise" /\ ~running
    /\ cur.exc = "CircuitBreakerTripped" /\ cur.why = "position_size"

\* C3 (as claimed): at the end of every process_tick call that entered the
\* signal processing, the driver has received exactly one event for each
\* signal whose processing was started, in both configurations.
C3_OneEventPerStartedSignal ==
    (pc = "done" /\ calls # << >> /\ calls[1] = <<"on_tick", 0>>) =>
      LET got == Delivered(exit, events)
      IN  /\ Len(got) = idx
          /\ \A k \in 1..idx : got[k].sig = k /\ got[k].type \in EventTypes

\* C4: when validate_inventory raises InventoryLimitExceeded for a signal,
\* the iteration appends exactly one signal_rejected event with reason
\* inventory_limit_exceeded, makes no send_order call for the signal, leaves
\* position, risk state and trade_count unchanged, leaves the engine running,
\* and the loop goes on with the next signal of the list, if any.
C4_InventoryRejection ==
    [][ /\ (pc = "signals" /\ InventoryRejects(cur'.signal, cur'.equity))
           => /\ events' = Append(events, Event("signal_rejected", idx + 1,
                                                "inventory_limit_exceeded"))
              /\ ~Made(calls', "send_order", idx + 1)
              /\ UNCHANGED << position, risk, trade_count >>
              /\ running'
              /\ flow' = "continue"
        /\ (pc = "handled" /\ events # << >>
                /\ Last(events).type = "signal_rejected" /\ idx < nsignals)
           => pc' = "signals"
      ]_vars

\* Witness of C4: a returned list holds a signal_rejected event followed by
\* the event of a later signal that was executed.
C4_Witness ==
    /\ pc = "done" /\ exit = "return" /\ Len(events) = 2
    /\ events[1].type = "signal_rejected"
    /\ events[2].type = "trade_executed"

\* C5: a signal with invalid input produces exactly one error event and no
\* send_order call, changes neither the position nor risk.open_trades,
\* risk.daily_pnl or trade_count, leaves the engine running, and the loop
\* goes on with the next signal of the list, if any.
C5_InvalidInputIsAnError ==
    [][ /\ (pc = "signals" /\ InvalidInput(cur'.signal, cur'.equity))
           => /\ events' = Append(events, Event("error", idx + 1, "none"))
              /\ ~Made(calls', "send_order", idx + 1)
              /\ position' = position
              /\ risk'.open_trades = risk.open_trades
              /\ risk'.daily_pnl = risk.daily_pnl
              /\ trade_count' = trade_count
              /\ running'
              /\ flow' = "continue"
        /\ (pc = "handled" /\ InvalidInput(cur.signal, cur.equity)
                /\ idx < nsignals)
           => pc' = "signals"
      ]_vars

\* Witness of C5: a returned list holds the error event of a signal with
\* size <= 0 followed by the event of a later signal that was executed.
C5_Witness ==
    /\ pc = "done" /\ exit = "return" /\ Len(events) = 2
    /\ events[1].type = "error"
    /\ events[2].type = "trade_executed"
    /\ Made(calls, "validate_inventory", 1)
    /\ ~Made(calls, "validate_position_size", 1)

\* C6: when strategy.on_tick raises, process_tick returns exactly one error
\* event, processes no signal and makes no other call, leaves position, risk
\* state and trade_count unchanged and leaves the engine running.
C6_StrategyErrorIsAnError ==
    [][ (pc = "idle" /\ calls' # << >> /\ calls'[1] = <<"on_tick:raise", 0>>)
        => /\ pc' = "done"
           /\ exit' = "return"
           /\ events' = << Event("error", 0, "none") >>
           /\ Len(calls') = 1
           /\ UNCHANGED << position, risk, trade_count >>
           /\ running /\ running'
      ]_vars

\* Witness of C6: after a tick on which the strategy raised, the next tick
\* had a signal executed.
C6_Witness ==
    /\ pc = "done" /\ last_error = "None" /\ tick_count = 2
    /\ nsignals = 1 /\ trade_count = 1 /\ Len(events) = 1
    /\ events[1].type = "trade_executed"
    /\ risk = [RiskInit EXCEPT !.daily_pnl = risk.daily_pnl]

\* C7: process_tick on a running engine with a tick that has no `last`
\* returns [] without a call to the strategy or the execution client and
\* changes only tick_count (by one), last_tick and last_error.
C7_TickWithoutLast ==
    [][ (pc = "idle" /\ running /\ pc' # "idle" /\ last_tick' = {})
        => /\ pc' = "done"
           /\ exit' = "return"
           /\ events' = << >>
           /\ calls' = << >>
           /\ tick_count' = tick_count + 1
           /\ UNCHANGED << position, risk, running, trade_count, last_equity,
                           nsignals, limits, raise_on_circuit_breaker >>
      ]_vars

\* Witness of C7: a tick without `last` was skipped by an engine that holds
\* a position from an earlier tick's trade.
C7_Witness ==
    /\ pc = "done" /\ last_tick = {} /\ tick_count = 2 /\ calls = << >>
    /\ position.qty # 0 /\ trade_count >= 1 /\ running

---------------------------------------------------------------------------
(* Properties of the RiskManager (specification SpecRisk).                 *)

\* C8: once circuit_breaker_hit is true it stays true, whatever operation
\* is called.
C8_TrippedIsAbsorbing ==
    [][risk.circuit_breaker_hit => risk'.circuit_breaker_hit]_vars

\* Witness of C8: decrement_open_trades was called on a tripped manager and
\* brought open_trades back to 0.
C8_Witness ==
    /\ rlast.op = "decrement_open_trades"
    /\ rlast.before.circuit_breaker_hit
    /\ rlast.before.open_trades = 1
    /\ risk.open_trades = 0

\* C9 (as claimed): after validate_position_size raised because of the
\* position percentage, or increment_open_trades because of max_open_trades,
\* the manager is TRIPPED (circuit_breaker_hit = true).
C9_EveryTripLatches ==
    (rlast.exc = "CircuitBreakerTripped"
        /\ rlast.why \in {"position_size", "max_open_trades"})
    => risk.circuit_breaker_hit

\* C10: on an ARMED manager with circuit_breaker_enabled, register_trade_pnl
\* adds pnl to daily_pnl and raises CircuitBreakerTripped, leaving the manager
\* TRIPPED, exactly when the new daily_pnl is negative with an absolute value
\* of at least max_daily_loss_value; otherwise it returns normally and the
\* manager stays ARMED.
C10_DailyLossTrip ==
    (rlast.op = "register_trade_pnl" /\ ~rlast.before.circuit_breaker_hit
        /\ limits.circuit_breaker_enabled)
    => LET total == rlast.before.daily_pnl.n + rlast.pnl
           trips == total < 0 /\ -total >= limits.max_daily_loss_value
       IN  /\ rlast.before.daily_pnl.d = 1
           /\ risk.daily_pnl = [n |-> total, d |-> 1]
           /\ risk.open_trades = rlast.before.open_trades
           /\ trips => (rlast.exc = "CircuitBreakerTripped"
                           /\ risk.circuit_breaker_hit)
           /\ ~trips => (rlast.exc = "none" /\ ~risk.circuit_breaker_hit)

\* Witness of C10: losses accumulated over several calls reach exactly the
\* limit and trip.
C10_Witness ==
    /\ rlast.op = "register_trade_pnl" /\ limits.circuit_breaker_enabled
    /\ rlast.exc = "CircuitBreakerTripped"
    /\ rlast.before.daily_pnl # Q(0)
    /\ risk.daily_pnl = Q(-limits.max_daily_loss_value)

\* C11: on a TRIPPED manager register_trade_pnl returns normally and leaves
\* daily_pnl (and everything else) as it was, and increment_open_trades
\* raises CircuitBreakerTripped at once, leaving open_trades as it was.
C11_TrippedCalls ==
    rlast.before.circuit_breaker_hit
    => /\ rlast.op = "register_trade_pnl"
            => (rlast.exc = "none" /\ risk = rlast.before)
       /\ rlast.op = "increment_open_trades"
            => (rlast.exc = "CircuitBreakerTripped" /\ rlast.why = "active"
                  /\ risk = rlast.before)

\* Witness of C11: a profit is registered on a manager that the daily loss
\* tripped, and the loss stays in daily_pnl.
C11_Witness ==
    /\ rlast.op = "register_trade_pnl"
    /\ rlast.before.circuit_breaker_hit
    /\ rlast.pnl > 0
    /\ QLt(risk.daily_pnl, Q(0))

\* C12: on an ARMED manager with open_trades = k, increment_open_trades
\* returns normally exactly when k + 1 <= max_open_trades, and otherwise
\* raises CircuitBreakerTripped.
C12_IncrementUpToCap ==
    (rlast.op = "increment_open_trades" /\ ~rlast.before.circuit_breaker_hit)
    => /\ rlast.exc \in {"none", "CircuitBreakerTripped"}
       /\ rlast.exc = "none"
            <=> rlast.before.open_trades + 1 <= limits.max_open_trades
       /\ rlast.exc = "none"
            => risk.open_trades = rlast.before.open_trades + 1

\* Witness of C12: with the counter at the cap (three calls succeeded), the
\* next call raises.
C12_Witness ==
    /\ rlast.op = "increment_open_trades"
    /\ ~rlast.before.circuit_breaker_hit
    /\ rlast.before.open_trades = limits.max_open_trades
    /\ rlast.exc = "CircuitBreakerTripped"

---------------------------------------------------------------------------
(* Properties of the PositionManager (specification SpecPosition).         *)

\* The last call was a valid trade against an open position of the
\* opposite direction / of the same direction.
Opposite ==
    /\ plast.exc = "none"
    /\ plast.before.qty # 0
    /\ Dir(plast.side) # Sign(plast.before.qty)
SameDirection ==
    /\ plast.exc = "none"
    /\ plast.before.qty # 0
    /\ Dir(plast.side) = Sign(plast.before.qty)

Min(a, b) == IF a < b THEN a ELSE b

\* C13: after any sequence of on_trade calls on a fresh PositionManager, qty
\* is the signed sum of the sizes of the valid trades (BUY positive, SELL
\* negative), and when that sum is 0 both qty and avg_price are 0.
C13_QtyIsSignedSum ==
    /\ position.qty = signed_sum
    /\ signed_sum = 0 => (position.qty = 0 /\ position.avg_price = Q(0))

\* Witness of C13: a sequence of at least three trades that went through a
\* reversal to a short position and realized a PnL ends flat.
C13_Witness ==
    /\ pcalls >= 3
    /\ plast.exc = "none"
    /\ plast.before.qty < 0
    /\ plast.before.realized_pnl # Q(0)
    /\ signed_sum = 0

\* C14: a trade opposite to an open position q adds exactly
\* (price - avg_price) * min(|q|, size) * sign(q) to realized_pnl; a trade on
\* a flat position or in the same direction leaves realized_pnl unchanged.
C14_RealizedPnl ==
    plast.exc = "none"
    => LET b == plast.before
           closed == Min(Abs(b.qty), plast.qty)
           gain == IF Opposite
                   THEN Norm((plast.price * b.avg_price.d - b.avg_price.n)
                                * closed * Sign(b.qty),
                             b.avg_price.d)
                   ELSE Q(0)
       IN  QSub(position.realized_pnl, b.realized_pnl) = gain

\* Witness of C14: the short round trip SELL 2 @ 110, BUY 2 @ 90 from a fresh
\* position realizes (110 - 90) * 2.
C14_Witness ==
    /\ pcalls = 2
    /\ plast.before = [qty |-> -2, avg_price |-> Q(110), realized_pnl |-> Q(0)]
    /\ Upper(plast.side) = "BUY" /\ plast.qty = 2 /\ plast.price = 90
    /\ position.realized_pnl = Q(40)

\* C15: after a trade of direction d opposite to a position q: size = |q|
\* leaves qty = 0 and avg_price = 0; size < |q| leaves
\* qty = sign(q) * (|q| - size) and avg_price unchanged; size > |q| leaves
\* qty = d * (size - |q|) and avg_price = the trade price, the PnL being
\* realized on the |q| closed units only.
C15_CloseReduceReverse ==
    Opposite
    => LET b == plast.before
           absq == Abs(b.qty)
       IN  /\ plast.qty = absq
                => (position.qty = 0 /\ position.avg_price = Q(0))
           /\ plast.qty < absq
                => /\ position.qty = Sign(b.qty) * (absq - plast.qty)
                   /\ position.avg_price = b.avg_price
           /\ plast.qty > absq
                => /\ position.qty = Dir(plast.side) * (plast.qty - absq)
                   /\ position.avg_price = Q(plast.price)
                   /\ QSub(position.realized_pnl, b.realized_pnl)
                        = QMul(QMul(QSub(Q(plast.price), b.avg_price), Q(absq)),
                               Q(Sign(b.qty)))

\* Witness of C15: BUY 1 @ 110 then SELL 2 @ 90 reverses to short 1 @ 90 with
\* a realized PnL of -20.
C15_Witness ==
    /\ plast.before = [qty |-> 1, avg_price |-> Q(110), realized_pnl |-> Q(0)]
    /\ plast.side = "SELL" /\ plast.qty = 2 /\ plast.price = 90
    /\ position = [qty |-> -1, avg_price |-> Q(90), realized_pnl |-> Q(-20)]

\* C16: a trade in the direction of an open position q leaves realized_pnl
\* unchanged, keeps the sign of qty, makes |qty| = |q| + size and makes
\* avg_price = (avg_price * |q| + price * size) / (|q| + size).
C16_AddIsWeightedMean ==
    SameDirection
    => LET b == plast.before
           absq == Abs(b.qty)
       IN  /\ position.realized_pnl = b.realized_pnl
           /\ Sign(position.qty) = Sign(b.qty)
           /\ Abs(position.qty) = absq + plast.qty
           /\ position.avg_price
                = Norm(b.avg_price.n * absq + plast.price * plast.qty * b.avg_price.d,
                       b.avg_price.d * (absq + plast.qty))

\* Witness of C16: a short of 1 @ 90 grows by 2 @ 110 to 3 @ 310/3.
C16_Witness ==
    /\ plast.before.qty = -1 /\ plast.before.avg_price = Q(90)
    /\ plast.side = "SELL" /\ plast.qty = 2 /\ plast.price = 110
    /\ position.qty = -3
    /\ position.avg_price = [n |-> 310, d |-> 3]

\* C17: on_trade with qty <= 0, or with a side that is neither BUY nor SELL,
\* raises ValueError and leaves qty, avg_price and realized_pnl unchanged.
C17_InvalidTrade ==
    (pcalls > 0 /\ (plast.qty <= 0 \/ Upper(plast.side) \notin {"BUY", "SELL"}))
    => (plast.exc = "ValueError" /\ position = plast.before)

\* Witness of C17: a trade of size 0 is refused on an open position.
C17_Witness ==
    /\ plast.qty = 0 /\ plast.side = "SELL"
    /\ plast.exc = "ValueError"
    /\ position.qty > 0

---------------------------------------------------------------------------
(* Properties of the InventoryRiskManager (specification SpecInventory).   *)

\* C18: validate_inventory with trade_qty > 0, a valid side and equity > 0
\* raises InventoryLimitExceeded exactly when |current_qty + dir * trade_qty|
\* exceeds max_abs_qty or that quantity's notional, as a percentage of the
\* equity, exceeds max_notional_pct; otherwise it returns silently.  The
\* outcome of a call is the same whatever calls came before it.
C18_InventoryGate ==
    (ilast.qty > 0 /\ Upper(ilast.side) \in {"BUY", "SELL"} /\ ilast.equity > 0)
    => LET new_abs == Abs(ilast.current_qty + Dir(ilast.side) * ilast.qty)
           exceeds ==
               \/ new_abs > InventoryLimits.max_abs_qty
               \/ new_abs * ilast.price * 100
                    > InventoryLimits.max_notional_pct * ilast.equity
       IN  /\ exceeds => ilast.exc = "InventoryLimitExceeded"
           /\ ~exceeds => ilast.exc = "none"

\* Witness of C18: a trade that leaves a position of 2, whose notional is
\* exactly max_notional_pct of the equity, is admitted.
C18_Witness ==
    /\ ilast.current_qty = 1 /\ ilast.side = "BUY" /\ ilast.qty = 1
    /\ ilast.price = 90 /\ ilast.equity = 1000
    /\ ilast.exc = "none"

---------------------------------------------------------------------------
(* Properties of the BacktestEngine (specification SpecBacktest).          *)

\* The trades of engine r, as (side, size, fill price).
Fills(r) ==
    [i \in 1..Len(bt[r].trades) |->
        << bt[r].trades[i].side, bt[r].trades[i].size, bt[r].trades[i].price >>]

\* C19: for every signal an engine executes, the fill price is tick.last
\* (MARKET) or signal.price (LIMIT) times (1 + slippage_bps/10000) for a BUY
\* and (1 - slippage_bps/10000) for a SELL, the fee is |size * fill_price| *
\* fee_rate, the recorded trade pnl is the change of position.realized_pnl
\* minus the fee, and equity grows by exactly that pnl; and with fee_rate = 0
\* and no slippage, BUY 1 @ 100 then SELL 1 @ 110 ends with net_pnl = 10,
\* 2 trades, 1 win and 0 losses.
C19_FillFeeAndPnl ==
    \A r \in Runs :
      /\ bt[r].last.executed
         => LET x == bt[r].last
                b == bt[r]
                base == IF x.signal.order_type = "MARKET" THEN x.tick_last
                        ELSE Val(x.signal.price)
                bps == b.cfg.slippage_bps
                fill == IF x.signal.side = "BUY"
                        THEN Norm(base * (10000 + bps), 10000)
                        ELSE Norm(base * (10000 - bps), 10000)
                fee == Norm(x.signal.size * Abs(fill.n) * b.cfg.fee_rate.n,
                            fill.d * b.cfg.fee_rate.d)
                pnl == QSub(QSub(b.position.realized_pnl,
                                 x.position_before.realized_pnl), fee)
            IN  /\ x.fill_price = fill
                /\ x.fee = fee
                /\ x.trade_pnl = pnl
                /\ QSub(b.equity, x.equity_before) = pnl
                /\ x.recorded
                     => /\ Last(b.trades).price = fill
                        /\ Last(b.trades).fee = fee
                        /\ Last(b.trades).pnl = pnl
                        /\ Last(b.trades).equity_after = b.equity
      /\ (/\ bt[r].status = "done"
          /\ bt[r].cfg.fee_rate = Q(0) /\ bt[r].cfg.slippage_bps = 0
          /\ bstream.signals = 2
          /\ Fills(r) = << <<"BUY", 1, Q(100)>>, <<"SELL", 1, Q(110)>> >>)
         => /\ bt[r].summary.net_pnl = Q(10)
            /\ bt[r].summary.total_trades = 2
            /\ bt[r].summary.wins = 1
            /\ bt[r].summary.losses = 0

\* Witness of C19: with a fee and a slippage of 5%, a long of 1 bought at
\* 100 * 1.05 is sold at 110 * 0.95, and the trade is recorded.
C19_Witness ==
    /\ bt[2].cfg.slippage_bps = 500 /\ bt[2].cfg.fee_rate # Q(0)
    /\ bt[2].last.recorded
    /\ bt[2].last.signal.side = "SELL" /\ bt[2].last.tick_last = 110
    /\ bt[2].last.position_before = [qty |-> 1, avg_price |-> Q(105),
                                     realized_pnl |-> Q(0)]
    /\ bt[2].last.fill_price = [n |-> 209, d |-> 2]
    /\ bt[2].position.qty = 0

\* Both engines have returned from run() after the stream produced at least
\* one round trip in each, with a slippage s > 0 in engine 1 and 2s in 2.
RoundTripReplayed ==
    /\ bstream.returned
    /\ \A r \in Runs : bt[r].status = "done" /\ bt[r].round_trips >= 1
    /\ bt[1].cfg.slippage_bps > 0
    /\ bt[2].cfg.slippage_bps = 2 * bt[1].cfg.slippage_bps

\* C20 (as claimed): if the stream produces at least one round trip, the
\* replay with slippage 2s ends with a strictly lower net_pnl than the
\* replay with slippage s > 0.
C20_SlippageMonotone ==
    RoundTripReplayed
    => QLt(bt[2].summary.net_pnl, bt[1].summary.net_pnl)

\* C20 (amended): if moreover fee_rate = 0 and every signal of the stream is
\* filled in both replays (the inventory gate rejects none, and no replay
\* leaves its loop before the stream ends), the replay with slippage 2s ends
\* with a strictly lower net_pnl.
C20_SlippageMonotoneSameFills ==
    (/\ RoundTripReplayed
     /\ bt[1].cfg.fee_rate = Q(0)
     /\ \A r \in Runs : bt[r].executed = bstream.signals)
    => QLt(bt[2].summary.net_pnl, bt[1].summary.net_pnl)

\* Witness of C20: three signals, all filled in both replays, among them a
\* round trip; the replay with the double slippage ends lower.
C20_Witness ==
    /\ RoundTripReplayed
    /\ bt[1].cfg.fee_rate = Q(0)
    /\ bstream.signals = 3
    /\ \A r \in Runs : bt[r].executed = 3
    /\ QLt(bt[2].summary.net_pnl, bt[1].summary.net_pnl)

\* What a replay keeps: position, equity, trades, equity curve, RiskManager.
Kept(b) == << b.position, b.equity, b.trades, b.equity_curve, b.risk,
              b.executed >>

\* C21: in run(), a signal rejected with InventoryLimitExceeded changes
\* neither position, equity, recorded trades nor the RiskManager, and the
\* replay goes on with the next signal; CircuitBreakerTripped stops the
\* replay: no later signal or tick changes anything, and run() still returns
\* its result (with the summary of what was replayed) instead of raising.
C21_RejectSkipsTripStops ==
    [][\A r \in Runs :
         /\ (bt[r].status = "running" /\ bstream'.signals = bstream.signals + 1)
            => /\ bt'[r].last.exc = "InventoryLimitExceeded"
                    => (Kept(bt'[r]) = Kept(bt[r]) /\ bt'[r].status = "running")
               /\ bt'[r].last.exc = "CircuitBreakerTripped"
                    <=> bt'[r].status = "stopped"
         /\ bt[r].status = "stopped"
            => /\ Kept(bt'[r]) = Kept(bt[r])
               /\ bt'[r].last = bt[r].last
               /\ bt'[r].status \in {"stopped", "done"}
               /\ bstream'.returned
                    => /\ bt'[r].status = "done"
                       /\ bt'[r].summary.total_trades = Len(bt[r].trades)
                       /\ bt'[r].summary.net_pnl
                            = QSub(bt[r].equity, Q(bt[r].cfg.initial_equity))
      ]_vars

\* Witness of C21: the first replay, with trades behind it, has just had a
\* signal rejected and is still running, while the second was stopped by its
\* circuit breaker at an earlier signal.
C21_Witness ==
    /\ bt[1].last.exc = "InventoryLimitExceeded"
    /\ bt[1].status = "running"
    /\ bt[1].executed >= 1
    /\ bt[2].status = "stopped"


\* The calls of the log for signal k, in the order they were made.
CallsFor(log, k) ==
    LET RECURSIVE Pick(_)
        Pick(i) == IF i > Len(log) THEN << >>
                   ELSE IF log[i][2] = k THEN << log[i][1] >> \o Pick(i + 1)
                   ELSE Pick(i + 1)
    IN  Pick(1)

\* seq starts with the names of pre, in that order.
StartsWith(seq, pre) == Len(seq) >= Len(pre) /\ SubSeq(seq, 1, Len(pre)) = pre

Validation == << "get_account_equity", "validate_inventory",
                 "validate_position_size", "increment_open_trades" >>

HasEvent(evs, type, k) == \E i \in 1..Len(evs) : evs[i].type = type /\ evs[i].sig = k

\* C27: the events of a tick are in the order of the signals; the
\* validation of a signal reads the position the signal before it left;
\* send_order is called for a signal only after validate_inventory,
\* validate_position_size and increment_open_trades succeeded for it,
\* on_trade only after send_order returned, and its trade_executed event is
\* appended only after register_trade_pnl and decrement_open_trades.
C27_OrderWithinTick ==
    [][ pc = "signals" =>
          LET k == idx + 1
              made == CallsFor(calls', k)
          IN  /\ \A i, j \in 1..Len(events') : i < j => events'[i].sig <= events'[j].sig
              /\ \A i \in 1..Len(calls') : calls'[i][2] <= k
              /\ \A i, j \in 1..Len(calls') : i < j => calls'[i][2] <= calls'[j][2]
              /\ (cur'.inv = "InventoryLimitExceeded")
                    <=> InventoryRejects(cur'.signal, cur'.equity)
              /\ Made(calls', "send_order", k)
                    => /\ StartsWith(made, Validation \o << "send_order" >>)
                       /\ ~HasEvent(events', "signal_rejected", k)
              /\ Made(calls', "on_trade", k)
                    => /\ StartsWith(made, Validation \o << "send_order", "on_trade" >>)
                       /\ cur'.order_ok
              /\ HasEvent(events', "trade_executed", k)
                    => made = Validation \o << "send_order", "on_trade",
                                               "register_trade_pnl",
                                               "decrement_open_trades" >>
      ]_vars

\* A returned list of two events: the first signal was executed, and the
\* second was rejected by the inventory limit because of the position the
\* first left (from a flat position it would have passed).
C27_Witness ==
    /\ pc = "done" /\ exit = "return" /\ Len(events) = 2
    /\ events[1].type = "trade_executed" /\ events[1].sig = 1
    /\ events[2].type = "signal_rejected" /\ events[2].sig = 2
    /\ cur.k = 2
    /\ validate_inventory(InventoryLimits, 0, cur.signal.side,
                          cur.signal.size, FillPrice(cur.signal),
                          Q(cur.equity)).exc = "none"

\* C28: once a signal has passed validation and the execution client has
\* taken its order, on_trade, register_trade_pnl, decrement_open_trades, the
\* trade_count increment and the trade_executed event all complete; a
\* CircuitBreakerTripped is raised only for a signal that has not been sent.
C28_NoSignalInterrupted ==
    [][ (pc = "signals" /\ Made(calls', "send_order", idx + 1) /\ cur'.order_ok) =>
          /\ CallsFor(calls', idx + 1)
               = Validation \o << "send_order", "on_trade", "register_trade_pnl",
                                  "decrement_open_trades" >>
          /\ trade_count' = trade_count + 1
          /\ HasEvent(events', "trade_executed", idx + 1)
          /\ cur'.exc # "CircuitBreakerTripped"
      ]_vars

---------------------------------------------------------------------------
(* Properties of the strategies (specification SpecStrategies).            *)

MarketMakers == {"MarketMakerV1", "MarketMakerV2"}

\* The mid price of the tick of the last call, when it has bid and ask.
TickMid == QDiv(QAdd(Q(Val(stick.tick.bid)), Q(Val(stick.tick.ask))), Q(2))

\* out is a BUY then a SELL LIMIT quote of equal size, at equal distances
\* s/2 >= 0 below and above mid.
IsQuotePair(out, mid) ==
    /\ Len(out) = 2
    /\ out[1].order_type = "LIMIT" /\ out[2].order_type = "LIMIT"
    /\ out[1].side = "BUY" /\ out[2].side = "SELL"
    /\ out[1].size = out[2].size
    /\ out[1].price # {} /\ out[2].price # {}
    /\ QSub(mid, Val(out[1].price)) = QSub(Val(out[2].price), mid)
    /\ QGe(QSub(Val(out[2].price), Val(out[1].price)), Q(0))

\* C22: a call of MarketMakerV1 or MarketMakerV2 returns no signal or a
\* pair of LIMIT signals of equal size, a BUY at mid - s/2 then a SELL at
\* mid + s/2; it returns the pair exactly when the number of calls made so
\* far, this one included, is a multiple of tick_interval and the tick has
\* both bid and ask.
C22_MarketMakerQuotes ==
    (strategy.kind \in MarketMakers /\ stick.n > 0) =>
        /\ strategy.counter = stick.n
        /\ stick.out # << >>
             <=> /\ stick.n % strategy.cfg.tick_interval = 0
                 /\ stick.tick.bid # {} /\ stick.tick.ask # {}
        /\ stick.out # << >> => IsQuotePair(stick.out, TickMid)

\* MarketMakerV2 with tick_interval 2 has quoted on its fourth call, after
\* an earlier pair, with a spread wider than the base spread: widened by the
\* volatility of the mids.
C22_Witness ==
    /\ strategy.kind = "MarketMakerV2"
    /\ strategy.cfg.tick_interval = 2
    /\ stick.n = 4
    /\ stick.had
    /\ Len(stick.out) = 2
    /\ QGt(QSub(Val(stick.out[2].price), Val(stick.out[1].price)),
           BaseSpread(strategy.cfg, TickMid))


\* The window of the last call: the prices the deque held before it, then
\* the tick's last price, cut to the newest lookback_ticks.
Window ==
    LET h == Append(stick.before.history, Q(Val(stick.tick.last)))
        k == stick.before.cfg.lookback_ticks
    IN  IF Len(h) <= k THEN h ELSE SubSeq(h, Len(h) - k + 1, Len(h))

WindowFull == Len(Window) >= stick.before.cfg.lookback_ticks
WindowMean == QDiv(QSum(Window), Q(Len(Window)))
\* last - mean
Deviation == QSub(Q(Val(stick.tick.last)), WindowMean)

\* |z| >= z_threshold for the clamped z-score of the last call: the cap
\* reaches the threshold and so does |last - mean| / std.
ZTriggers ==
    LET cfg == stick.before.cfg
        var == Variance(Window)
    IN  /\ QGt(var, Q(0))
        /\ QGe(cfg.max_z_cap, cfg.z_threshold)
        /\ QGe(QMul(Deviation, Deviation),
               QMul(QMul(cfg.z_threshold, cfg.z_threshold), var))

OneMarket(out, side) ==
    /\ Len(out) = 1
    /\ out[1].order_type = "MARKET"
    /\ out[1].side = side

MeanReversionSide == IF QGt(Deviation, Q(0)) THEN "SELL" ELSE "BUY"

\* C23 as stated: MeanReversionV1 returns nothing until lookback_ticks
\* prices have been seen; with a full window and no active cooldown it
\* returns exactly one MARKET signal when |z| >= z_threshold, SELL above the
\* mean and BUY below, and nothing when |z| < z_threshold or std = 0.
C23_MeanReversionSignal ==
    (strategy.kind = "MeanReversionV1" /\ stick.n > 0 /\ stick.tick.last # {}) =>
        /\ ~WindowFull => stick.out = << >>
        /\ (WindowFull /\ stick.before.cooldown = 0) =>
             IF ZTriggers THEN OneMarket(stick.out, MeanReversionSide)
             ELSE stick.out = << >>

\* C23 amended: the same, but the signal is returned only when side_bias
\* allows its side; when it does not, nothing is returned.
C23_MeanReversionSignalBias ==
    (strategy.kind = "MeanReversionV1" /\ stick.n > 0 /\ stick.tick.last # {}) =>
        /\ ~WindowFull => stick.out = << >>
        /\ (WindowFull /\ stick.before.cooldown = 0) =>
             IF ZTriggers /\ _bias_allows(stick.before.cfg, MeanReversionSide)
             THEN OneMarket(stick.out, MeanReversionSide)
             ELSE stick.out = << >>

\* The repository's test: prices 100, 100, 100, 100, 102 with lookback 5
\* and threshold 1 end in one SELL; and the z-score there was clamped.
C23_Witness ==
    /\ strategy.kind = "MeanReversionV1"
    /\ strategy.cfg.lookback_ticks = 5
    /\ strategy.cfg.max_z_cap = Q(1)
    /\ strategy.history = << Q(100), Q(100), Q(100), Q(100), Q(102) >>
    /\ OneMarket(stick.out, "SELL")


\* The number of strictly increasing moves that end at the newest price of
\* the window w.
UpRun(w) ==
    LET runs == { k \in 0..(Len(w) - 1) :
                     \A i \in (Len(w) - k + 1)..Len(w) : QGt(w[i], w[i - 1]) }
    IN  CHOOSE k \in runs : \A j \in runs : j <= k

DownRun(w) ==
    LET runs == { k \in 0..(Len(w) - 1) :
                     \A i \in (Len(w) - k + 1)..Len(w) : QLt(w[i], w[i - 1]) }
    IN  CHOOSE k \in runs : \A j \in runs : j <= k

\* (p_last - p_first) / p_first over the window
WindowReturn == QDiv(QSub(Window[Len(Window)], Window[1]), Window[1])

MomentumUp ==
    /\ UpRun(Window) >= stick.before.cfg.min_moves
    /\ QGe(WindowReturn, stick.before.cfg.min_return)

MomentumDown ==
    /\ DownRun(Window) >= stick.before.cfg.min_moves
    /\ QLe(WindowReturn, QSub(Q(0), stick.before.cfg.min_return))

\* A call of MicroMomentumV1 with a last price, a full window and no active
\* cooldown.
MomentumDecides ==
    /\ strategy.kind = "MicroMomentumV1" /\ stick.n > 0
    /\ stick.tick.last # {}
    /\ WindowFull
    /\ stick.before.cooldown = 0

\* A call with a last price made while the cooldown counter is positive
\* returns nothing.
CooldownSuppresses ==
    (stick.n > 0 /\ stick.tick.last # {} /\ stick.before.cooldown > 0)
        => stick.out = << >>

\* C24 as stated: with a full window and no active cooldown MicroMomentumV1
\* returns exactly one BUY MARKET signal when the run of strictly increasing
\* moves ending at the newest price has at least min_moves moves and the
\* window's return reaches min_return, one SELL MARKET in the mirrored case
\* and nothing otherwise; an equal price ends a run; the cooldown started by
\* an emission suppresses the following signals.
C24_MomentumSignal ==
    strategy.kind = "MicroMomentumV1" =>
        /\ MomentumDecides =>
             IF MomentumUp THEN OneMarket(stick.out, "BUY")
             ELSE IF MomentumDown THEN OneMarket(stick.out, "SELL")
             ELSE stick.out = << >>
        /\ CooldownSuppresses
        /\ stick.out # << >> => strategy.cooldown = strategy.cfg.cooldown_ticks

\* C24 amended: the same, but the signal is returned only when side_bias
\* allows its direction; when it does not, nothing is returned.
C24_MomentumSignalBias ==
    strategy.kind = "MicroMomentumV1" =>
        /\ MomentumDecides =>
             IF MomentumUp /\ stick.before.cfg.side_bias # "short_only"
             THEN OneMarket(stick.out, "BUY")
             ELSE IF MomentumDown /\ stick.before.cfg.side_bias # "long_only"
             THEN OneMarket(stick.out, "SELL")
             ELSE stick.out = << >>
        /\ CooldownSuppresses
        /\ stick.out # << >> => strategy.cooldown = strategy.cfg.cooldown_ticks

\* Three rising prices gave a BUY with side_bias long_only; the next price
\* rises again, by enough, and the cooldown suppresses the signal.
C24_Witness ==
    /\ strategy.kind = "MicroMomentumV1" /\ strategy.cfg.side_bias = "long_only"
    /\ stick.had /\ stick.gap = 0
    /\ stick.tick.last # {}
    /\ stick.before.cooldown = 2
    /\ WindowFull /\ MomentumUp
    /\ stick.out = << >>


\* The tick of the last call has bid, ask and both sizes.
BookComplete ==
    /\ stick.tick.bid # {} /\ stick.tick.ask # {}
    /\ stick.tick.bid_size # {} /\ stick.tick.ask_size # {}

TotalSize == Val(stick.tick.bid_size) + Val(stick.tick.ask_size)

\* I = (bid_size - ask_size) / (bid_size + ask_size), for a total above 0
Imbalance == Norm(Val(stick.tick.bid_size) - Val(stick.tick.ask_size), TotalSize)

\* C25: ImbalanceV1 returns at most one signal per tick, a MARKET one, and
\* only when bid, ask, bid_size and ask_size are present, the total size
\* reaches min_total_size and |I| >= imbalance_threshold; it is a BUY only
\* when I > 0 and a SELL only when I < 0, so a tick with bid_size = ask_size
\* never gives a signal.
C25_ImbalanceSignal ==
    (strategy.kind = "ImbalanceV1" /\ stick.n > 0 /\ stick.out # << >>) =>
        /\ Len(stick.out) = 1
        /\ stick.out[1].order_type = "MARKET"
        /\ BookComplete
        /\ TotalSize > 0 /\ TotalSize >= strategy.cfg.min_total_size
        /\ QGe(QAbs(Imbalance), strategy.cfg.imbalance_threshold)
        /\ stick.out[1].side = "BUY" => QGt(Imbalance, Q(0))
        /\ stick.out[1].side = "SELL" => QLt(Imbalance, Q(0))
        /\ Val(stick.tick.bid_size) # Val(stick.tick.ask_size)


CooldownStrategies == {"MeanReversionV1", "MicroMomentumV1", "ImbalanceV1"}

\* The last call reached the cooldown gate: ImbalanceV1 starts with it, the
\* two price strategies return before it on a tick without last.
ReachedGate == strategy.kind = "ImbalanceV1" \/ stick.tick.last # {}

\* C29: in MeanReversionV1, MicroMomentumV1 and ImbalanceV1 a call that
\* returns a signal sets the cooldown counter to cooldown_ticks; a call that
\* reaches the gate with a positive counter returns nothing and decrements
\* the counter by one; between two calls that return a signal there are at
\* least cooldown_ticks calls that return none; the counter is never
\* negative.
C29_Cooldown ==
    (strategy.kind \in CooldownStrategies /\ stick.n > 0) =>
        /\ stick.out # << >> => strategy.cooldown = strategy.cfg.cooldown_ticks
        /\ (ReachedGate /\ stick.before.cooldown > 0)
              => /\ stick.out = << >>
                 /\ strategy.cooldown = stick.before.cooldown - 1
        /\ (stick.out # << >> /\ stick.had)
              => stick.gap >= strategy.cfg.cooldown_ticks
        /\ strategy.cooldown >= 0

\* ImbalanceV1 with cooldown_ticks 2 returns a second signal exactly two
\* silent calls after the first.
C29_Witness ==
    /\ strategy.kind = "ImbalanceV1"
    /\ strategy.cfg.cooldown_ticks = 2
    /\ stick.out # << >>
    /\ stick.had
    /\ stick.gap = 2
    /\ strategy.cooldown = 2

---------------------------------------------------------------------------
(* Properties of the environment hardening (specification SpecEnv).        *)

\* _apply_env_hardening has returned.
HardeningReturned == hard.called /\ hard.exc = "none"

\* The settings given had no trading.dry_run key.
DryRunMissing == hard.given.trading.is = "absent" \/ hard.given.trading.dry_run = "absent"

LiveHardened ==
    /\ hard.settings.risk.is = "dict"
    /\ hard.settings.risk.circuit_breaker.is = "dict"
    /\ hard.settings.risk.circuit_breaker.enabled = "True"

\* C26 as stated: after _apply_env_hardening for binance_live,
\* risk.circuit_breaker.enabled is true, and trading.dry_run is true unless
\* ALLOW_REAL_TRADING is 'true' and CONFIRM_I_UNDERSTAND_RISK is 'yes'; in
\* every environment a missing dry_run becomes true.
C26_LiveHardening ==
    HardeningReturned =>
        /\ hard.env_name = "binance_live" =>
             /\ LiveHardened
             /\ hard.settings.trading.dry_run # "True"
                  => /\ hard.ALLOW_REAL_TRADING = {"true"}
                     /\ hard.CONFIRM_I_UNDERSTAND_RISK = {"yes"}
        /\ DryRunMissing => hard.settings.trading.dry_run = "True"

\* C26 amended: the two variables are compared without regard to case.
C26_LiveHardeningAnyCase ==
    HardeningReturned =>
        /\ hard.env_name = "binance_live" =>
             /\ LiveHardened
             /\ hard.settings.trading.dry_run # "True"
                  => /\ hard.ALLOW_REAL_TRADING \in {{"true"}, {"TRUE"}}
                     /\ hard.CONFIRM_I_UNDERSTAND_RISK \in {{"yes"}, {"Yes"}}
        /\ DryRunMissing => hard.settings.trading.dry_run = "True"

\* Live settings that disabled the circuit breaker and asked for real
\* trading, with both consents given: the breaker is enabled and dry_run
\* stays false.
C26_Witness ==
    /\ HardeningReturned
    /\ hard.env_name = "binance_live"
    /\ hard.given.risk.circuit_breaker.enabled = "False"
    /\ hard.given.trading.dry_run = "False"
    /\ hard.ALLOW_REAL_TRADING = {"true"}
    /\ hard.CONFIRM_I_UNDERSTAND_RISK = {"yes"}
    /\ LiveHardened
    /\ hard.settings.trading.dry_run = "False"


---------------------------------------------------------------------------
(* Properties of the WebSocket feed (specification SpecWs).                *)

\* seq is strictly increasing: its ticks are in the order of production.
InOrder(seq) == \A i, j \in 1..Len(seq) : i < j => seq[i] < seq[j]

\* C30: under every interleaving of _handle_message and ticks(), the queue
\* never holds more than its maxsize; the ticks the consumer has received,
\* followed by those still queued, are in the order they were produced; and
\* when the queue was full the new tick is enqueued by the second
\* put_nowait, never ignored, after the reader took out at most the one tick
\* that was then the oldest in the queue.
C30_BoundedFifoDropOldest ==
    [][ /\ Len(ws'.queue) <= QueueMaxSize
        /\ InOrder(ws'.received \o ws'.queue)
        /\ \A i \in 1..Len(ws'.received) : ws'.received[i] \in 1..ws'.messages
        /\ ws'.ignored = << >>
        /\ (ws.rpc = "retry" /\ ws'.rpc = "idle")
              => (ws'.queue # << >> /\ Last(ws'.queue) = ws.tick)
        /\ ws'.dropped # ws.dropped
              => /\ ws.rpc = "full"
                 /\ ws'.dropped = Append(ws.dropped, Head(ws.queue))
                 /\ \A i \in 1..Len(ws.queue) : Head(ws.queue) <= ws.queue[i]
                 /\ ws'.queue = Tail(ws.queue)
      ]_vars

\* The reader found the queue full, the consumer took a tick before the
\* reader's get_nowait, the reader still discarded the then oldest tick and
\* enqueued the new one; the consumer has the first tick, the second is
\* lost.
C30_Witness ==
    /\ ws.rpc = "idle"
    /\ ws.received = << 1 >>
    /\ ws.dropped = << 2 >>
    /\ Len(ws.queue) = QueueMaxSize - 1
    /\ Last(ws.queue) = ws.messages


\* C31: the wait before the k-th reconnection of the reader thread is
\* min(2^(k-1), 60) seconds, so it starts at 1, doubles and never exceeds
\* 60; and the thread leaves its loop only when the feed is not running.
C31_ReconnectBackoff ==
    /\ \A k \in 1..Len(ws.waits) :
         ws.waits[k] = (IF 2^(k - 1) < 60 THEN 2^(k - 1) ELSE 60)
    /\ ws.backoff = (IF 2^Len(ws.waits) < 60 THEN 2^Len(ws.waits) ELSE 60)
    /\ ws.backoff <= 60
    /\ ws.wpc = "exited" => ~ws._running

\* The thread is in run_forever again after seven waits, the last capped
\* at 60 after 32.
C31_Witness ==
    /\ ws.wpc = "up"
    /\ Len(ws.waits) = 7
    /\ ws.waits[6] = 32 /\ ws.waits[7] = 60


---------------------------------------------------------------------------
(* Properties of the driver loops (specification SpecDriver).              *)

\* main() is over.
DriverOver == drv.pc \in {"ended", "crashed"}

\* C32: in main()'s loop, once process_tick has returned with the engine
\* not running or with a circuit_breaker event, the loop ends: no further
\* tick is requested and process_tick is not called again, so it is never
\* called on a stopped engine; the earlier main() ends as soon as a signal
\* raises CircuitBreakerTripped.
C32_DriverStops ==
    [][ /\ (drv.kind = "cli" /\ drv.pc = "call" /\ pc = "done" /\ exit = "return"
              /\ (~running \/ HasEvent(events, "circuit_breaker", idx)))
           => drv'.pc = "ended"
        /\ (drv.pc = "loop" /\ drv'.pc = "call") => running
        /\ (drv.kind = "cli" /\ tick_count' # tick_count) => running
        /\ (drv.kind = "legacy" /\ drv.pc = "signals"
              /\ cur'.exc = "CircuitBreakerTripped")
           => drv'.pc = "ended"
        /\ DriverOver => /\ drv'.requested = drv.requested
                         /\ UNCHANGED << tick_count, calls, position, risk >>
                         /\ DriverOver'
        /\ (drv.kind = "cli" /\ ~running /\ pc = "idle") => DriverOver
      ]_vars

\* main() has ended at a circuit_breaker event after two ticks, with the
\* engine stopped.
C32_Witness ==
    /\ drv.kind = "cli" /\ drv.pc = "ended" /\ drv.how = "circuit_breaker"
    /\ drv.requested = 2
    /\ ~running /\ tick_count = 2


\* C33: when run() has returned, summary.max_drawdown is the largest, over
\* the points of the equity curve in order, of (highest equity so far -
\* equity at the point), the curve starting at its first recorded point; it
\* is never negative and is 0 for a curve that never falls.
C33_MaxDrawdown ==
    \A r \in Runs :
      bt[r].status = "done"
      => LET curve == bt[r].equity_curve
             md == bt[r].summary.max_drawdown
             falls == {QSub(curve[j], curve[i]) :
                         <<j, i>> \in {p \in (1..Len(curve)) \X (1..Len(curve)) :
                                         p[1] <= p[2]}}
         IN  /\ md \in falls
             /\ \A d \in falls : QLe(d, md)
             /\ QGe(md, Q(0))
             /\ (\A i \in 1..(Len(curve) - 1) : QLe(curve[i], curve[i + 1]))
                  => md = Q(0)

\* Witness of C33: a returned replay whose curve of four points falls, then
\* rises above its start, then falls again by less than the first fall.
C33_Witness ==
    /\ bt[1].status = "done"
    /\ Len(bt[1].equity_curve) = 4
    /\ QLt(bt[1].equity_curve[2], bt[1].equity_curve[1])
    /\ QGt(bt[1].equity_curve[3], bt[1].equity_curve[1])
    /\ QLt(bt[1].equity_curve[4], bt[1].equity_curve[3])
    /\ bt[1].summary.max_drawdown
         = QSub(bt[1].equity_curve[1], bt[1].equity_curve[2])
    /\ QGt(bt[1].summary.max_drawdown, Q(0))


---------------------------------------------------------------------------
(* Properties of the engine's accounting (specification Spec).             *)

\* C34: on an engine that started flat, |position.qty| never exceeds
\* max_abs_qty: every fill that changes the position is of a signal that
\* validate_inventory admitted against the position the fill is applied to,
\* and moves the quantity by exactly the validated size.
C34_PositionWithinInventory ==
    [][ /\ Abs(position'.qty) <= InventoryLimits.max_abs_qty
        /\ position' # position
           => /\ pc = "signals"
              /\ cur'.signal.size > 0
              /\ position'.qty
                   = position.qty + Dir(cur'.signal.side) * cur'.signal.size
              /\ validate_inventory(InventoryLimits, position.qty,
                                    cur'.signal.side, cur'.signal.size,
                                    FillPrice(cur'.signal),
                                    Q(cur'.equity)).exc = "none"
      ]_vars

\* Witness of C34: after two fills the position is at the limit, and a
\* further BUY, which a flat position would admit, has been rejected.
C34_Witness ==
    /\ position.qty = InventoryLimits.max_abs_qty
    /\ trade_count = 2
    /\ pc = "handled"
    /\ cur.signal.side = "BUY" /\ cur.inv = "InventoryLimitExceeded"
    /\ validate_inventory(InventoryLimits, 0, cur.signal.side,
                          cur.signal.size, FillPrice(cur.signal),
                          Q(cur.equity)).exc = "none"


\* C35: at every return from process_tick that leaves the engine running,
\* risk.open_trades = 0: each successful increment_open_trades is matched by
\* a decrement_open_trades for the same signal, also when send_order or
\* on_trade fails after the increment.
C35_OpenTradesBalanced ==
    (pc = "done" /\ exit = "return" /\ running) => risk.open_trades = 0


TradePnls(b) == [i \in 1..Len(b.trades) |-> b.trades[i].pnl]

\* C37: when run() returns, summary.final_equity is initial_equity plus the
\* sum of pnl over the recorded trades, there are as many recorded trades as
\* fills applied to the position, and if a trade was recorded the last point
\* of the equity curve carries final_equity; also when a circuit-breaker
\* trip ended the replay.
C37_EquityIsSumOfTrades ==
    \A r \in Runs :
      bt[r].status = "done"
      => /\ bt[r].summary.final_equity
              = QAdd(Q(bt[r].cfg.initial_equity), QSum(TradePnls(bt[r])))
         /\ Len(bt[r].trades) = bt[r].executed
         /\ Len(bt[r].trades) >= 1
              => Last(bt[r].equity_curve) = bt[r].summary.final_equity


---------------------------------------------------------------------------
(* Properties of a RiskManager with circuit_breaker_enabled = false        *)
(* (specification SpecRisk).                                               *)

\* C38 (as claimed): with circuit_breaker_enabled = false no operation of
\* the RiskManager raises CircuitBreakerTripped.
C38_DisabledNeverRaises ==
    ~limits.circuit_breaker_enabled => rlast.exc # "CircuitBreakerTripped"

\* C38 (amended): with circuit_breaker_enabled = false register_trade_pnl
\* never raises and the manager never becomes TRIPPED, whatever the loss;
\* validate_position_size still raises CircuitBreakerTripped exactly when
\* the position is more than max_position_size_pct of a positive equity,
\* and increment_open_trades exactly when the count exceeds max_open_trades.
C38_DisabledOnlyDailyLoss ==
    ~limits.circuit_breaker_enabled
    => /\ ~risk.circuit_breaker_hit
       /\ rlast.op = "register_trade_pnl"
            => /\ rlast.exc = "none"
               /\ risk.daily_pnl = QAdd(rlast.before.daily_pnl, Q(rlast.pnl))
       /\ rlast.op = "validate_position_size"
            => (rlast.exc = "CircuitBreakerTripped"
                  <=> /\ rlast.equity > 0
                      /\ rlast.notional * 100
                           > limits.max_position_size_pct * rlast.equity)
       /\ rlast.op = "increment_open_trades"
            => (rlast.exc = "CircuitBreakerTripped"
                  <=> rlast.before.open_trades + 1 > limits.max_open_trades)

\* Witness of C38: the breaker is disabled, a daily loss beyond
\* max_daily_loss_value has been registered without a trip, and then
\* validate_position_size raised CircuitBreakerTripped for a 20% position.
C38_Witness ==
    /\ ~limits.circuit_breaker_enabled
    /\ QLt(risk.daily_pnl, Q(0 - limits.max_daily_loss_value))
    /\ rlast.op = "validate_position_size"
    /\ rlast.exc = "CircuitBreakerTripped"
    /\ rlast.notional = 200 /\ rlast.equity = 1000


\* C39: run() over a finite tick stream always ends by returning its
\* BacktestResult and never raises, whatever signals the strategy returns
\* (LIMIT signals without a price and non-positive sizes included) and
\* whatever the equity has become.
C39_RunAlwaysReturns ==
    \A r \in Runs :
      /\ bt[r].status # "raised"
      /\ bstream.returned => bt[r].status = "done"

===========================================================================
